---------------------------- MODULE Spec2Model ----------------------------
(***************************************************************************)
(* A model of proplot's base Axes bookkeeping (src/proplot/axes/base.py):  *)
(* the legend and colorbar registries (_legend_dict, _colorbar_dict) with  *)
(* their queue and flush, the panel stacks (_panel_dict) and the title     *)
(* slots (_title_dict) with their arbitration between a main axes and its  *)
(* outermost top panel.                                                    *)
(*                                                                         *)
(* The figure holds one main subplot, axes 0, and the panels created for   *)
(* it, axes 1..npanels in creation order.  The graphics toolkit is a       *)
(* collaborator: the model keeps of it what the bookkeeping reads and      *)
(* writes (which legend an axes holds as legend_, which legends were added *)
(* as artists, which guide objects exist, the text, color and font of each *)
(* title slot).                                                            *)
(***************************************************************************)
EXTENDS Integers, Sequences, FiniteSets, TLC

\* ------------------------------------------------------------------ bounds
MaxPanels == 3
MaxGuides == 3
MaxHandles == 3
MaxSteps == 3
MaxPanelSteps == 4
MaxSiblings == 2
MaxGridSteps == 3
MaxShareSteps == 4
MaxNumber == 54
MaxAbcSteps == 2
MaxChain == 6
MaxRoundSteps == 4
MaxZoomCalls == 3

\* ------------------------------------------------------------- the figure
Main == 0
Mains == -MaxSiblings..0
Axes == -MaxSiblings..MaxPanels
NoAx == MaxPanels + 1
Sides == {"left", "right", "bottom", "top"}
NoSide == "None"

VARIABLES
  legend_dict,     \* axes -> ordered dict (sequence of [k, v]) of legend entries
  colorbar_dict,   \* axes -> ordered dict of colorbar entries
  panel_dict,      \* axes -> side -> the axes' panels of that side, inside to outside
  panel_side,      \* axes -> its side, NoSide for the main axes
  panel_hidden,    \* axes -> "filled" by a guide
  npanels,         \* panels created so far
  legend_attr,     \* axes -> the legend the toolkit holds as ax.legend_ (0: None)
  artists,         \* the legends currently added as artists (add_artist)
  guides,          \* the guide objects created so far: id -> [kind, ax, loc, rm]:
                   \* the axes it lives in, the loc of the call that drew it, and
                   \* how often it was detached (remove() called, legend_ cleared)
  registered,      \* history: the main axes' pending entries, oldest first
  calls,           \* the drawing collaborator's invocations of the last operation
  last,            \* the last operation, its arguments and its outcome
  remove_raises,   \* the toolkit build: remove() of a non-artist raises
  title_dict,      \* axes -> slot name -> [text, color, font]
  title_above,     \* axes -> "True" | "False" | "panels"
  title_loc,       \* axes -> the remembered title location
  abc_loc,         \* axes -> the a-b-c label location
  title_pad,       \* axes -> title padding
  abc_title_pad,   \* axes -> a-b-c/title padding
  child_axes,      \* axes -> the number of its child axes (add_child_axes)
  subplotspec,     \* axes -> its place in the grid
  panel_share,     \* axes -> the panel takes part in the sharing of its main axes
  panel_share_group, \* axes -> axis -> member of a panel sharing group
  setups,          \* the _share{x,y}_setup calls of the last operation
  set_order,       \* the run: the order in which a set lists the subplots
  number,          \* axes -> its number, NoNumber for None
  chain,           \* an ownership chain: the link by which its axes i hangs on axes i - 1
  zoom,            \* an axes' inset parent, its zoom indicators and _inset_zoom_data
  steps            \* operations run so far (bounds the exploration)

vars == <<legend_dict, colorbar_dict, panel_dict, panel_side, panel_hidden,
          npanels, legend_attr, artists, guides, registered, calls, last,
          remove_raises, title_dict, title_above, title_loc, abc_loc, title_pad,
          abc_title_pad, child_axes, subplotspec, panel_share, panel_share_group,
          setups, set_order, number, chain, zoom, steps>>

\* ------------------------------------------------------------ dictionaries
\* A Python dict keeps insertion order: a sequence of [k, v], keys unique.
DictKeys(d) == {d[i].k : i \in DOMAIN d}
DictHas(d, k) == k \in DictKeys(d)
DictGet(d, k) == d[CHOOSE i \in DOMAIN d : d[i].k = k].v
NotKey(e, k) == e.k # k
DictPop(d, k) == SelectSeq(d, LAMBDA e : NotKey(e, k))
DictSet(d, k, v) ==
  IF DictHas(d, k)
  THEN [i \in DOMAIN d |-> IF d[i].k = k THEN [k |-> k, v |-> v] ELSE d[i]]
  ELSE Append(d, [k |-> k, v |-> v])

\* ------------------------------------------------------------ guide values
\* Keyword arguments of a guide: 0 is "not given"; center: 1 False, 2 True.
NoKw == [center |-> 0, ncol |-> 0]
KwUpdate(old, new) ==
  [center |-> IF new.center # 0 THEN new.center ELSE old.center,
   ncol |-> IF new.ncol # 0 THEN new.ncol ELSE old.ncol]

\* A registry entry: a pending tuple (handles, labels, kwargs), one resolved
\* object, or a tuple of row legends.
Pending(h, l, kw) == [tag |-> "pending", h |-> h, l |-> l, kw |-> kw, ids |-> <<>>]
Obj(id) == [tag |-> "obj", h |-> <<>>, l |-> <<>>, kw |-> NoKw, ids |-> <<id>>]
Rows(ids) == [tag |-> "rows", h |-> <<>>, l |-> <<>>, kw |-> NoKw, ids |-> ids]
Pair(h, l) == [tag |-> "pair", h |-> h, l |-> l, kw |-> NoKw, ids |-> <<>>]
NoneRet == [tag |-> "none", h |-> <<>>, l |-> <<>>, kw |-> NoKw, ids |-> <<>>]
IsTuple(e) == e.tag \in {"pending", "rows", "pair"}
AnyLegend(e) == e.tag = "rows"

\* An argument that may be None, a bare object or a list.
ArgNone == [t |-> "none", v |-> <<>>]
ArgOne(x) == [t |-> "one", v |-> <<x>>]
ArgList(s) == [t |-> "list", v |-> s]
ToList(arg) ==
  IF arg.t = "none" THEN <<>>
  ELSE IF arg.t = "list" THEN arg.v
  ELSE <<arg.v[1]>>

\* ------------------------------------------------------------- title slots
OuterNames == {"left", "center", "right"}
InsetNames == {"upper left", "upper center", "upper right",
               "lower left", "lower center", "lower right"}
SlotNames == {"abc"} \cup OuterNames \cup InsetNames
SP == " "
EmptySlot == [text |-> <<>>, color |-> "k", font |-> "f0"]

RECURSIVE LStrip(_)
LStrip(t) == IF t # <<>> /\ Head(t) = SP THEN LStrip(Tail(t)) ELSE t
RECURSIVE RStrip(_)
RStrip(t) ==
  IF t # <<>> /\ t[Len(t)] = SP THEN RStrip(SubSeq(t, 1, Len(t) - 1)) ELSE t
Strip(t) == RStrip(LStrip(t))

\* ------------------------------------------------------- the threaded state
\* Operators take and return the whole state as a record, so that a handler
\* that calls other methods, loops or raises midway is one action.
St ==
  [legend_dict |-> legend_dict, colorbar_dict |-> colorbar_dict,
   panel_dict |-> panel_dict, panel_side |-> panel_side,
   panel_hidden |-> panel_hidden, npanels |-> npanels,
   legend_attr |-> legend_attr, artists |-> artists, guides |-> guides,
   calls |-> <<>>, exc |-> "", ret |-> NoneRet,
   title_dict |-> title_dict, title_above |-> title_above,
   title_loc |-> title_loc, abc_loc |-> abc_loc, title_pad |-> title_pad,
   abc_title_pad |-> abc_title_pad, child_axes |-> child_axes,
   subplotspec |-> subplotspec, panel_share |-> panel_share,
   panel_share_group |-> panel_share_group, setups |-> <<>>, set_order |-> set_order,
   number |-> number]

Raise(S, e) == [S EXCEPT !.exc = e]

\* ----------------------------------------------------- titles: arbitration
\* _transfer_text(src, dest): color and font are copied first; the text moves
\* only when the source text is not blank.  (TransferTextFull is the transfer
\* without the blank test, kept for comparison.)
TransferTextFull(src, dest) ==
  [src |-> [src EXCEPT !.text = <<>>],
   dest |-> [text |-> src.text, color |-> src.color, font |-> src.font]]
TransferText(src, dest) ==
  LET d1 == [dest EXCEPT !.color = src.color, !.font = src.font]
  IN IF Strip(src.text) = <<>>
     THEN [src |-> src, dest |-> d1]
     ELSE [src |-> [src EXCEPT !.text = <<>>],
           dest |-> [d1 EXCEPT !.text = src.text]]

\* The panels of an axes on a side.
PanelsOf(S, a, side) == S.panel_dict[a][side]

\* The padding settings title.pad and abc.titlepad; NoPad: not given.
NoPad == 0

\* The names _above_title moves: the outer slots, and abc when it sits there.
AboveNames(S, a) ==
  <<"left", "center", "right">> \o (IF S.abc_loc[a] \in OuterNames THEN <<"abc">> ELSE <<>>)

\* The direction: TRUE moves main to panel.  (AboveToPanelSwapped reads the
\* preference the other way round, kept for comparison.)
AboveToPanelSwapped(S, a, pax) ==
  S.title_above[a] = "False"
  \/ (~S.panel_hidden[pax] /\ S.title_above[a] = "panels")
AboveToPanel(S, a, pax) ==
  S.title_above[a] = "True"
  \/ (~S.panel_hidden[pax] /\ S.title_above[a] = "panels")

\* The loop of _above_title over the names, one _transfer_text each.
\* (TransferNameExchange swaps the two texts, kept for comparison.)
TransferNameExchange(td, src, dest, n) ==
  [td EXCEPT ![src][n].text = td[dest][n].text, ![dest][n].text = td[src][n].text]
TransferName(td, src, dest, n) ==
  LET T == TransferText(td[src][n], td[dest][n])
  IN [td EXCEPT ![src][n] = T.src, ![dest][n] = T.dest]
RECURSIVE TransferNames(_, _, _, _)
TransferNames(td, src, dest, names) ==
  IF names = <<>> THEN td
  ELSE TransferNames(TransferName(td, src, dest, Head(names)), src, dest, Tail(names))

\* _above_title: nothing without a top panel; else the transfers between the
\* axes and its outermost top panel, and the paddings follow.
\* (AboveTitleNoReturn lacks the way back from the panel, kept for
\* comparison.)
AboveTitleNoReturn(S, a) ==
  LET paxs == PanelsOf(S, a, "top")
  IN IF paxs = <<>> \/ ~AboveToPanel(S, a, paxs[Len(paxs)]) THEN S
     ELSE [S EXCEPT
             !.title_dict = TransferNames(@, a, paxs[Len(paxs)], AboveNames(S, a)),
             !.title_pad[paxs[Len(paxs)]] = S.title_pad[a],
             !.abc_title_pad[paxs[Len(paxs)]] = S.abc_title_pad[a]]
AboveTitle(S, a) ==
  LET paxs == PanelsOf(S, a, "top")
  IN IF paxs = <<>> THEN S
     ELSE
       LET pax == paxs[Len(paxs)]
           src == IF AboveToPanel(S, a, pax) THEN a ELSE pax
           dest == IF AboveToPanel(S, a, pax) THEN pax ELSE a
       IN [S EXCEPT
             !.title_dict = TransferNames(@, src, dest, AboveNames(S, a)),
             !.title_pad[dest] = S.title_pad[src],
             !.abc_title_pad[dest] = S.abc_title_pad[src]]

\* ------------------------------------------------------ titles: the updates
\* Text.update(kw): only the properties given change.
ArgText(t) == [t |-> "text", v |-> t]
NoStyle == [color |-> "None", font |-> "None"]
SlotUpdate(slot, title, style) ==
  [text |-> IF title.t = "none" THEN slot.text ELSE title.v,
   color |-> IF style.color = "None" THEN slot.color ELSE style.color,
   font |-> IF style.font = "None" THEN slot.font ELSE style.font]

\* _update_title(loc, title, **kwargs).  With loc None the location is the
\* title.loc setting (rcloc) or the remembered one, and the text of the old
\* location, when there is one, is transferred to the new one.  It ends with
\* _above_title.  (UpdateTitleKeepsLoc does not remember the new location,
\* kept for comparison.)
UpdateTitleKeepsLoc(S, a, loc, title, style, rcloc) ==
  LET old == S.title_loc[a]
      new == IF loc # "None" THEN loc ELSE IF rcloc # "None" THEN rcloc ELSE old
      T == TransferText(S.title_dict[a][old], S.title_dict[a][new])
      S1 == IF loc # "None" THEN S
            ELSE [S EXCEPT !.title_dict[a] =
                             IF new # old /\ old # "None"
                             THEN [@ EXCEPT ![old] = T.src, ![new] = T.dest]
                             ELSE @]
      S2 == [S1 EXCEPT !.title_dict[a][new] = SlotUpdate(@, title, style)]
  IN AboveTitle(S2, a)
UpdateTitleOp(S, a, loc, title, style, rcloc) ==
  LET old == S.title_loc[a]
      new == IF loc # "None" THEN loc ELSE IF rcloc # "None" THEN rcloc ELSE old
      T == TransferText(S.title_dict[a][old], S.title_dict[a][new])
      S1 == IF loc # "None" THEN S
            ELSE [S EXCEPT !.title_loc[a] = new,
                           !.title_dict[a] =
                             IF new # old /\ old # "None"
                             THEN [@ EXCEPT ![old] = T.src, ![new] = T.dest]
                             ELSE @]
      S2 == [S1 EXCEPT !.title_dict[a][new] = SlotUpdate(@, title, style)]
  IN AboveTitle(S2, a)

\* The abc setting: None (not given), True, False, a number or a string, a
\* string being a sequence of characters.
NoNumber == 0
AbcNone == [t |-> "none", v |-> <<>>]
AbcTrue == [t |-> "true", v |-> <<>>]
AbcFalse == [t |-> "false", v |-> <<>>]
AbcInt == [t |-> "int", v |-> <<>>]
AbcStr(str) == [t |-> "str", v |-> str]
Truthy(abc) == abc.t \in {"true", "int"} \/ (abc.t = "str" /\ abc.v # <<>>)
Has(str, c) == \E i \in DOMAIN str : str[i] = c

\* The a-b-c label of number n in a style: the first 'a' or 'A' of the style
\* gives way to the letter of index (n - 1) mod 26, (n - 1) div 26 + 1 times,
\* in upper case for 'A'.
ABC_STRING ==
  <<"a", "b", "c", "d", "e", "f", "g", "h", "i", "j", "k", "l", "m",
    "n", "o", "p", "q", "r", "s", "t", "u", "v", "w", "x", "y", "z">>
ABC_UPPER ==
  <<"A", "B", "C", "D", "E", "F", "G", "H", "I", "J", "K", "L", "M",
    "N", "O", "P", "Q", "R", "S", "T", "U", "V", "W", "X", "Y", "Z">>
UpperChar(c) ==
  IF \E i \in DOMAIN ABC_STRING : ABC_STRING[i] = c
  THEN ABC_UPPER[CHOOSE i \in DOMAIN ABC_STRING : ABC_STRING[i] = c]
  ELSE c
Upper(str) == [i \in DOMAIN str |-> UpperChar(str[i])]
Search(str) ==
  CHOOSE i \in DOMAIN str :
    str[i] \in {"a", "A"} /\ \A j \in DOMAIN str : j < i => str[j] \notin {"a", "A"}
Times(k, c) == [i \in 1..k |-> c]
ReplaceAt(str, i, new) == SubSeq(str, 1, i - 1) \o new \o SubSeq(str, i + 1, Len(str))
AbcLabelNoWrap(str, n) ==
  LET iabc == (n - 1) % 26
      old == str[Search(str)]
      new == Times(1, ABC_STRING[iabc + 1])
  IN ReplaceAt(str, Search(str), IF old = "A" THEN Upper(new) ELSE new)
AbcLabel(str, n) ==
  LET nabc == (n - 1) \div 26
      iabc == (n - 1) % 26
      old == str[Search(str)]
      new == Times(nabc + 1, ABC_STRING[iabc + 1])
  IN ReplaceAt(str, Search(str), IF old = "A" THEN Upper(new) ELSE new)

\* _update_abc(**kwargs): True stands for the style 'a'; a setting that is
\* true and is no string, or has neither 'a' nor 'A', raises ValueError; the
\* label text is set only for a numbered axes and a true setting; the
\* location is the abc.loc setting or the remembered one.  It ends with
\* _above_title.
UpdateAbcOp(S, a, abc, rcloc, style) ==
  LET abc1 == IF abc.t = "true" THEN AbcStr(<<"a">>) ELSE abc
      loc == IF rcloc # "None" THEN rcloc ELSE S.abc_loc[a]
      title == IF Truthy(abc1) /\ S.number[a] # NoNumber
               THEN ArgText(AbcLabel(abc1.v, S.number[a]))
               ELSE ArgNone
      S1 == [S EXCEPT !.abc_loc[a] = loc,
                      !.title_dict[a]["abc"] = SlotUpdate(@, title, style)]
  IN IF Truthy(abc1) /\ (abc1.t # "str" \/ (~Has(abc1.v, "a") /\ ~Has(abc1.v, "A")))
     THEN Raise(S, "ValueError")
     ELSE AboveTitle(S1, a)

\* The number setter: None or a positive integer, anything else raises
\* ValueError.  A value is None, an integer, or something that is no integer.
NumNone == [t |-> "none", v |-> 0]
NumInt(k) == [t |-> "int", v |-> k]
NumOther == [t |-> "other", v |-> 0]
SetNumberOp(S, a, num) ==
  IF num.t = "none" THEN [S EXCEPT !.number[a] = NoNumber]
  ELSE IF num.t = "int" /\ num.v > 0 THEN [S EXCEPT !.number[a] = num.v]
  ELSE Raise(S, "ValueError")

\* format(): the title.above setting, the a-b-c label, the title at the
\* title.loc location, then every named location in turn.
FormatLocs ==
  <<"left", "center", "right", "upper left", "upper center", "upper right",
    "lower left", "lower center", "lower right">>
RECURSIVE UpdateTitles(_, _, _, _)
UpdateTitles(S, a, locs, style) ==
  IF locs = <<>> THEN S
  ELSE UpdateTitles(UpdateTitleOp(S, a, Head(locs), ArgNone, style, "None"),
                    a, Tail(locs), style)
FormatOp(S, a, in) ==
  LET S1 == IF in.above # "None"
            THEN AboveTitle([S EXCEPT !.title_above[a] = in.above], a)
            ELSE S
      S2 == UpdateAbcOp(S1, a, in.abc, "None", NoStyle)
      S3 == UpdateTitleOp(S2, a, "None", in.title, in.style, in.rcloc)
  IN IF S2.exc # "" THEN S2 ELSE UpdateTitles(S3, a, FormatLocs, in.style)

\* ------------------------------------------------------------------ panels
\* _hide_panel: the panel stays in its stack, its titles stay.  (HidePanelDrops
\* takes the panel out of its stack as well, kept for comparison.)
HidePanelDrops(S, a) ==
  [S EXCEPT !.panel_hidden[a] = TRUE,
            !.panel_dict =
              [x \in Axes |-> [s \in DOMAIN S.panel_dict[x] |->
                 SelectSeq(S.panel_dict[x][s], LAMBDA q : q # a)]]]
HidePanel(S, a) == [S EXCEPT !.panel_hidden[a] = TRUE]

\* _iter_axes(hidden, children, panels): the axes, then its panels side by
\* side in the order given; a hidden axes is skipped with its children unless
\* hidden is set; children follow their parent.  An entry is an axes (child 0)
\* or the i-th child axes of one.  (IterOneKeepsChildren lists the children
\* of a skipped axes, kept for comparison.)
AllSides == <<"left", "right", "bottom", "top">>
RECURSIVE PanelsOnSides(_, _, _)
PanelsOnSides(S, a, sides) ==
  IF sides = <<>> THEN <<>>
  ELSE S.panel_dict[a][Head(sides)] \o PanelsOnSides(S, a, Tail(sides))
IterOneKeepsChildren(S, iax, hidden, children) ==
  (IF ~hidden /\ S.panel_hidden[iax] THEN <<>> ELSE <<[ax |-> iax, child |-> 0]>>)
  \o (IF children THEN [i \in 1..S.child_axes[iax] |-> [ax |-> iax, child |-> i]]
      ELSE <<>>)
IterOne(S, iax, hidden, children) ==
  IF ~hidden /\ S.panel_hidden[iax] THEN <<>>
  ELSE <<[ax |-> iax, child |-> 0]>>
       \o (IF children THEN [i \in 1..S.child_axes[iax] |-> [ax |-> iax, child |-> i]]
           ELSE <<>>)
RECURSIVE IterEach(_, _, _, _)
IterEach(S, axs, hidden, children) ==
  IF axs = <<>> THEN <<>>
  ELSE IterOne(S, Head(axs), hidden, children) \o IterEach(S, Tail(axs), hidden, children)
IterAxes(S, a, hidden, children, panels) ==
  IterEach(S, <<a>> \o PanelsOnSides(S, a, panels), hidden, children)

\* ----------------------------------------------------------------- sharing
\* The grid place of an axes: a subplot has a row range and a column range; a
\* freestanding axes is no subplot.
Cell(r, c) == [kind |-> "subplot", rows |-> <<r, r>>, cols |-> <<c, c>>]
Tall(c) == [kind |-> "subplot", rows |-> <<0, 1>>, cols |-> <<c, c>>]
Free == [kind |-> "free", rows |-> <<0, 0>>, cols |-> <<0, 0>>]
Absent == [kind |-> "absent", rows |-> <<0, 0>>, cols |-> <<0, 0>>]
Places == {Cell(0, 0), Cell(1, 0), Cell(0, 1), Tall(0)}
IsSubplot(S, a) == S.subplotspec[a].kind = "subplot"

\* _range_subplotspec(x): the column range for 'x', the row range otherwise.
RangeSubplotspec(S, a, x) ==
  IF x = "x" THEN S.subplotspec[a].cols ELSE S.subplotspec[a].rows

\* Figure._iter_axes(hidden=False, children=False, panels=False): the
\* subplots of the figure that are not hidden.
FigureIterAxes(S) ==
  {m \in Mains : IsSubplot(S, m) /\ IterAxes(S, m, FALSE, FALSE, <<>>) # <<>>}

\* np.argmax / np.argmin: the first index that holds the extreme key.
ArgMax(keys) ==
  CHOOSE i \in DOMAIN keys :
    /\ \A j \in DOMAIN keys : keys[j] <= keys[i]
    /\ \A j \in DOMAIN keys : j < i => keys[j] < keys[i]
ArgMin(keys) ==
  CHOOSE i \in DOMAIN keys :
    /\ \A j \in DOMAIN keys : keys[j] >= keys[i]
    /\ \A j \in DOMAIN keys : j < i => keys[j] > keys[i]
Pop(seq, i) == SubSeq(seq, 1, i - 1) \o SubSeq(seq, i + 1, Len(seq))

\* _get_share_axes(x): an axes that is no subplot gets itself alone.
\* Otherwise the subplots with the same range along x, this axes among them,
\* listed in the order of a set (set_order); the one of the largest starting
\* row (for 'x') or of the least ending column (for 'y') is taken out and put
\* first.  (GetShareAxesSwapped takes the other extreme and
\* GetShareAxesUnguarded has no test for a subplot, kept for comparison.)
GetShareAxesUnguarded(S, self, x) ==
  LET y == IF x = "x" THEN "y" ELSE "x"
      idx == IF x = "x" THEN 1 ELSE 2
      irange == RangeSubplotspec(S, self, x)
      group == {self} \cup {ax \in FigureIterAxes(S) : RangeSubplotspec(S, ax, x) = irange}
      axs == SelectSeq(S.set_order, LAMBDA ax : ax \in group)
      keys == [i \in DOMAIN axs |-> RangeSubplotspec(S, axs[i], y)[idx]]
      i == IF x = "x" THEN ArgMax(keys) ELSE ArgMin(keys)
  IN <<axs[i]>> \o Pop(axs, i)
GetShareAxesSwapped(S, self, x) ==
  IF ~IsSubplot(S, self) THEN <<self>>
  ELSE
    LET y == IF x = "x" THEN "y" ELSE "x"
        idx == IF x = "x" THEN 1 ELSE 2
        irange == RangeSubplotspec(S, self, x)
        group == {self} \cup {ax \in FigureIterAxes(S) : RangeSubplotspec(S, ax, x) = irange}
        axs == SelectSeq(S.set_order, LAMBDA ax : ax \in group)
        keys == [i \in DOMAIN axs |-> RangeSubplotspec(S, axs[i], y)[idx]]
        i == IF x = "x" THEN ArgMin(keys) ELSE ArgMax(keys)
    IN <<axs[i]>> \o Pop(axs, i)
GetShareAxes(S, self, x) ==
  IF ~IsSubplot(S, self) THEN <<self>>
  ELSE
    LET y == IF x = "x" THEN "y" ELSE "x"
        idx == IF x = "x" THEN 1 ELSE 2
        irange == RangeSubplotspec(S, self, x)
        group == {self} \cup {ax \in FigureIterAxes(S) : RangeSubplotspec(S, ax, x) = irange}
        axs == SelectSeq(S.set_order, LAMBDA ax : ax \in group)
        keys == [i \in DOMAIN axs |-> RangeSubplotspec(S, axs[i], y)[idx]]
        i == IF x = "x" THEN ArgMax(keys) ELSE ArgMin(keys)
    IN <<axs[i]>> \o Pop(axs, i)

\* _sharex_setup / _sharey_setup(share) of an axes: the call is noted (the
\* axes class sets the shared axis there), then the panels follow: the short
\* axis of the panels of two sides, the long axis of the panels of the other
\* two.  _share_short_axis pairs the panels that are not hidden of this axes
\* and of the other, in order, as far as both go; _share_long_axis gives every
\* panel that is not hidden the same parent.  Both do nothing without a parent
\* or on a panel.  (ShareShortAxisAll pairs the hidden panels too, kept for
\* comparison.)
Visible(S, paxs) == SelectSeq(paxs, LAMBDA p : ~S.panel_hidden[p])
ShortSides(axis) == IF axis = "x" THEN <<"left", "right">> ELSE <<"bottom", "top">>
LongSides(axis) == IF axis = "x" THEN <<"bottom", "top">> ELSE <<"left", "right">>
SideAxis(side, short) ==
  IF short THEN (IF side \in {"left", "right"} THEN "x" ELSE "y")
  ELSE (IF side \in {"top", "bottom"} THEN "x" ELSE "y")
Noted(S, self, axis, share) ==
  [S EXCEPT !.setups = Append(@, [ax |-> self, axis |-> axis, share |-> share])]
RECURSIVE ShareSetup(_, _, _, _)
RECURSIVE ZipSetup(_, _, _, _)
RECURSIVE EachSetup(_, _, _, _)
ZipSetup(S, caxs, paxs, axis) ==
  IF caxs = <<>> \/ paxs = <<>> THEN S
  ELSE ZipSetup(ShareSetup(S, Head(caxs), axis, Head(paxs)), Tail(caxs), Tail(paxs), axis)
EachSetup(S, axs, axis, share) ==
  IF axs = <<>> THEN S
  ELSE EachSetup(ShareSetup(S, Head(axs), axis, share), Tail(axs), axis, share)
ShareShortAxisAll(S, self, share, side) ==
  IF share = NoAx \/ S.panel_side[self] # NoSide THEN S
  ELSE ZipSetup(S, S.panel_dict[self][side], S.panel_dict[share][side], SideAxis(side, TRUE))
ShareShortAxis(S, self, share, side) ==
  IF share = NoAx \/ S.panel_side[self] # NoSide THEN S
  ELSE ZipSetup(S, Visible(S, S.panel_dict[self][side]),
                Visible(S, S.panel_dict[share][side]), SideAxis(side, TRUE))
ShareLongAxis(S, self, share, side) ==
  IF share = NoAx \/ S.panel_side[self] # NoSide THEN S
  ELSE EachSetup(S, Visible(S, S.panel_dict[self][side]), SideAxis(side, FALSE), share)
ShareSetup(S, self, axis, share) ==
  LET S0 == Noted(S, self, axis, share)
      S1 == ShareShortAxis(S0, self, share, ShortSides(axis)[1])
      S2 == ShareShortAxis(S1, self, share, ShortSides(axis)[2])
      S3 == ShareLongAxis(S2, self, share, LongSides(axis)[1])
  IN ShareLongAxis(S3, self, share, LongSides(axis)[2])

\* _auto_share: on a main axes, the outermost panel of the bottom (left) stack
\* that takes part in sharing becomes the x (y) parent of the main axes and of
\* the other panels of that stack that take part, and of those of the top
\* (right) stack; without one the main axes is their parent.  Then the
\* subplots of the same range share with the first of _get_share_axes.
\* (SharedAny takes the hidden panels too, kept for comparison.)
SharedAny(S, paxs) == SelectSeq(paxs, LAMBDA p : S.panel_share[p])
Shared(S, paxs) == SelectSeq(paxs, LAMBDA p : ~S.panel_hidden[p] /\ S.panel_share[p])
RECURSIVE GroupSetup(_, _, _, _)
GroupSetup(S, axs, axis, ref) ==
  IF axs = <<>> THEN S
  ELSE GroupSetup(ShareSetup([S EXCEPT !.panel_share_group[Head(axs)][axis] = TRUE],
                             Head(axs), axis, ref),
                  Tail(axs), axis, ref)
AutoSharePanels(S, self, axis, near, far) ==
  LET Near(paxs) ==
        LET ref == IF paxs # <<>> THEN paxs[Len(paxs)] ELSE self
            Far(S1) == GroupSetup(S1, Shared(S1, S1.panel_dict[self][far]), axis, ref)
        IN Far(IF paxs = <<>> THEN S
               ELSE GroupSetup([S EXCEPT !.panel_share_group[ref][axis] = FALSE],
                               <<self>> \o SubSeq(paxs, 1, Len(paxs) - 1), axis, ref))
  IN Near(Shared(S, S.panel_dict[self][near]))
AutoShareExternal(S, self, axis) ==
  LET Others(axs) == EachSetup(S, Tail(axs), axis, Head(axs))
  IN Others(GetShareAxes(S, self, axis))
AutoShare(S, self) ==
  LET S1 == IF S.panel_side[self] = NoSide
            THEN AutoSharePanels(AutoSharePanels(S, self, "x", "bottom", "top"),
                                 self, "y", "left", "right")
            ELSE S
  IN AutoShareExternal(AutoShareExternal(S1, self, "x"), self, "y")

\* _update_title with the padding settings title.pad and abc.titlepad given:
\* the paddings are stored first, then the call goes on as without them.
UpdateTitlePads(S, a, pad, abcpad) ==
  [S EXCEPT !.abc_title_pad[a] = IF abcpad # NoPad THEN abcpad ELSE @,
            !.title_pad[a] = IF pad # NoPad THEN pad ELSE @]
UpdateTitlePadOp(S, a, in) ==
  UpdateTitleOp(UpdateTitlePads(S, a, in.pad, in.abcpad), a, in.loc, in.title, in.style, in.rcloc)

\* The construction of an axes ends with format(): its first _update_title,
\* with no location remembered yet and the title.loc of the settings.
RcTitleLoc == "center"
ConstructTitle(S, a) == UpdateTitleOp(S, a, "None", ArgNone, NoStyle, RcTitleLoc)

\* Figure._add_axes_panel: the new panel is made, appended to the side's
\* stack, outermost, and takes part in sharing as asked; creating a panel runs
\* the main axes' _auto_share and _above_title.
AddAxesPanel(S, a, side, share) ==
  IF S.npanels >= MaxPanels THEN Raise(S, "BOUND")
  ELSE
    LET p == S.npanels + 1
        S0 == ConstructTitle(S, p)
        S1 == [S0 EXCEPT !.npanels = p,
                        !.panel_dict[a][side] = Append(@, p),
                        !.panel_side[p] = side,
                        !.panel_share[p] = share]
    IN AboveTitle(AutoShare(S1, a), a)

\* panel_axes: a panel cannot have panels.  (PanelAxesUnchecked lacks the
\* test, kept for comparison.)
PanelAxesUnchecked(S, a, side, share) == AddAxesPanel(S, a, side, share)
PanelAxes(S, a, side, share) ==
  IF S.panel_side[a] # NoSide THEN Raise(S, "RuntimeError")
  ELSE AddAxesPanel(S, a, side, share)

\* Removal of a panel from the figure: its entry leaves the stack of its
\* parent, the rest keep their places.
IsNot(x, p) == x # p
RemovePanelOp(S, p) ==
  [S EXCEPT !.panel_dict =
     [x \in Axes |-> [s \in Sides |-> SelectSeq(S.panel_dict[x][s], LAMBDA q : IsNot(q, p))]]]


\* ------------------------------------------------------------------ guides
Dicts(S, guide) == IF guide = "legend" THEN S.legend_dict ELSE S.colorbar_dict
SetDict(S, guide, a, d) ==
  IF guide = "legend" THEN [S EXCEPT !.legend_dict[a] = d]
  ELSE [S EXCEPT !.colorbar_dict[a] = d]

\* A guide is in the scene when some axes holds it as legend_, when it was
\* added as an artist and not removed, or when it is a colorbar (colorbars
\* are never removed by this code).
Attached(S, id) ==
  \/ S.guides[id].kind = "colorbar"
  \/ id \in S.artists
  \/ \E x \in Axes : S.legend_attr[x] = id

\* The toolkit's Artist.remove(): an artist added with add_artist leaves the
\* scene.  A legend that is only held as some axes' legend_ "was never added
\* as artist": depending on the toolkit build the call raises, or detaches it.
Remove(S, id) ==
  LET S1 == [S EXCEPT !.guides[id].rm = @ + 1]
  IN IF id \in S.artists THEN [S1 EXCEPT !.artists = S.artists \ {id}]
     ELSE IF remove_raises THEN Raise(S1, "NotImplementedError")
     ELSE [S1 EXCEPT !.legend_attr =
             [x \in Axes |-> IF S.legend_attr[x] = id THEN 0 ELSE S.legend_attr[x]]]

\* _add_guide, lines 1596-1606: a resolved single object under the key is
\* popped; a legend is detached, a colorbar is left in the scene.
AddGuideRemove(S, a, guide, key) ==
  LET d == Dicts(S, guide)[a]
  IN IF DictHas(d, key) /\ ~IsTuple(DictGet(d, key))
     THEN LET prev == DictGet(d, key).ids[1]
              P == SetDict(S, guide, a, DictPop(d, key))
          IN IF guide = "colorbar" THEN P
             ELSE IF P.legend_attr[a] = prev
               THEN [P EXCEPT !.legend_attr[a] = 0, !.guides[prev].rm = @ + 1]
             ELSE Remove(P, prev)
     ELSE S

\* _add_guide, lines 1608-1623: a (handles, labels) tuple extends the pending
\* entry of the key, created empty when the key holds none; anything else
\* replaces the entry.
AddGuideQueue(S, a, guide, key, obj, kw) ==
  LET d == Dicts(S, guide)[a]
      handles == ToList(obj.h)
      labels == ToList(obj.l)
      full == IF DictHas(d, key) THEN DictGet(d, key) ELSE Pending(<<>>, <<>>, NoKw)
  IN IF full.tag = "rows"
     THEN Raise(S, IF Len(full.ids) = 3 THEN "AttributeError" ELSE "ValueError")
     ELSE IF Len(full.h \o handles) > MaxHandles \/ Len(full.l \o labels) > MaxHandles
       THEN Raise(S, "BOUND")
     ELSE SetDict(S, guide, a,
                  DictSet(d, key, Pending(full.h \o handles, full.l \o labels,
                                          KwUpdate(full.kw, kw))))

AddGuide(S, a, guide, obj, loc, kw) ==
  IF guide \notin {"legend", "colorbar"} THEN Raise(S, "TypeError")
  ELSE IF loc = "fill" /\ S.panel_side[a] = NoSide THEN S
  ELSE
    LET key == IF loc = "fill" THEN S.panel_side[a] ELSE loc
        S1 == AddGuideRemove(S, a, guide, key)
    IN IF S1.exc # "" THEN S1
       ELSE IF IsTuple(obj) /\ ~AnyLegend(obj)
         THEN AddGuideQueue(S1, a, guide, key, obj, kw)
       ELSE SetDict(S1, guide, a, DictSet(Dicts(S1, guide)[a], key, obj))

\* The location of a panel-filling legend, loc_sides of _draw_legend.
LocSides(side) ==
  CASE side = "left" -> "center right"
    [] side = "right" -> "center left"
    [] side = "top" -> "lower center"
    [] side = "bottom" -> "upper center"
    [] OTHER -> "center"

Min(x, y) == IF x < y THEN x ELSE y

\* The number of Legend objects _draw_legend makes: one, or one per row of a
\* centered legend (_parse_handles_labels splits the pairs into rows of ncol;
\* no handles given means the axes' own artists, and the model's axes have
\* nothing plotted).
NumLegends(h, l, kw) ==
  LET n == IF h = <<>> THEN 0 ELSE IF l = <<>> THEN Len(h) ELSE Min(Len(h), Len(l))
      ncol == IF kw.ncol = 0 THEN 3 ELSE kw.ncol
      rows == (n + ncol - 1) \div ncol
  IN IF kw.center = 2 /\ rows >= 2 THEN rows ELSE 1

Call(guide, loc, h, l, kw) == [guide |-> guide, loc |-> loc, h |-> h, l |-> l, kw |-> kw]
NewGuides(S, guide, ax, loc, k) ==
  S.guides \o [i \in 1..k |-> [kind |-> guide, ax |-> ax, loc |-> loc, rm |-> 0]]

\* _draw_legend: an outer location makes a new filled panel; the first legend
\* of an axes becomes its legend_, the others are added as artists; the
\* legend is registered on the calling axes under the translated location.
DrawLegend(S, a, h, l, loc, kw) ==
  LET S0 == [S EXCEPT !.calls = Append(@, Call("legend", loc, h, l, kw))]
      outer == loc \in Sides
      InAxes(S1) ==
        IF S1.exc # "" THEN S1
        ELSE
          LET lax == IF outer THEN S1.npanels ELSE a
              fill == outer \/ loc = "fill"
              S2 == IF fill THEN HidePanel(S1, lax) ELSE S1
              loc2 == IF fill THEN LocSides(S2.panel_side[lax]) ELSE loc
              k == NumLegends(h, l, kw)
              n == Len(S2.guides)
          IN IF n + k > MaxGuides THEN Raise(S2, "BOUND")
             ELSE
               LET first == S2.legend_attr[lax] = 0
                   S3 == [S2 EXCEPT
                            !.guides = NewGuides(S2, "legend", lax, loc, k),
                            !.legend_attr[lax] = IF first THEN n + 1 ELSE @,
                            !.artists = @ \cup {n + i : i \in (IF first THEN 2 ELSE 1)..k}]
                   obj == IF k = 1 THEN Obj(n + 1) ELSE Rows([i \in 1..k |-> n + i])
               IN [AddGuide(S3, a, "legend", obj, loc2, NoKw) EXCEPT !.ret = obj]
  IN InAxes(IF outer THEN PanelAxes(S0, a, loc, FALSE) ELSE S0)

\* _draw_colorbar: an outer location makes a new panel and the colorbar fills
\* it (_fill_colorbar_axes hides the panel); the colorbar gets an axes of its
\* own, a child of the axes it is drawn in; it is registered on the axes it
\* was drawn for, the panel for an outer colorbar.
DrawColorbar(S, a, h, l, loc, kw) ==
  LET S0 == [S EXCEPT !.calls = Append(@, Call("colorbar", loc, h, l, kw))]
      outer == loc \in Sides
      InAxes(S1) ==
        IF S1.exc # "" THEN S1
        ELSE
          LET self == IF outer THEN S1.npanels ELSE a
              loc1 == IF outer THEN "fill" ELSE loc
              S2 == [(IF loc1 = "fill" THEN HidePanel(S1, self) ELSE S1)
                       EXCEPT !.child_axes[self] = @ + 1]
              n == Len(S2.guides)
          IN IF n + 1 > MaxGuides THEN Raise(S2, "BOUND")
             ELSE
               LET S3 == [S2 EXCEPT !.guides = NewGuides(S2, "colorbar", self, loc, 1)]
               IN [AddGuide(S3, self, "colorbar", Obj(n + 1), loc1, NoKw)
                     EXCEPT !.ret = Obj(n + 1)]
  IN InAxes(IF outer THEN PanelAxes(S0, a, loc, FALSE) ELSE S0)


\* _draw_guides: the queued colorbars, then the queued legends, each loop over
\* a snapshot of the registry's items.
RECURSIVE FlushColorbars(_, _, _)
FlushColorbars(S, a, snap) ==
  IF snap = <<>> \/ S.exc # "" THEN S
  ELSE
    LET loc == Head(snap).k
        e == Head(snap).v
    IN IF ~IsTuple(e) THEN FlushColorbars(S, a, Tail(snap))
       ELSE
         LET Store(S1) ==
               IF S1.exc # "" THEN S1
               ELSE FlushColorbars(
                      [S1 EXCEPT !.colorbar_dict[a] = DictSet(@, loc, S1.ret)],
                      a, Tail(snap))
         IN Store(DrawColorbar(S, a, e.h, e.l, loc, e.kw))

\* The legend loop skips resolved objects and tuples of row legends.
\* (FlushSkipsPlain lacks the test for row legends, kept for comparison.)
FlushSkipsPlain(e) == ~IsTuple(e)
FlushSkipsLegend(e) == ~IsTuple(e) \/ AnyLegend(e)
RECURSIVE FlushLegends(_, _, _)
FlushLegends(S, a, snap) ==
  IF snap = <<>> \/ S.exc # "" THEN S
  ELSE
    LET loc == Head(snap).k
        e == Head(snap).v
    IN IF FlushSkipsLegend(e) THEN FlushLegends(S, a, Tail(snap))
       ELSE
         LET Store(S1) ==
               IF S1.exc # "" THEN S1
               ELSE FlushLegends(
                      [S1 EXCEPT !.legend_dict[a] = DictSet(@, loc, S1.ret)],
                      a, Tail(snap))
         IN Store(DrawLegend(S, a, e.h, e.l, loc, e.kw))

\* (DrawGuidesLegendsFirst runs the two loops in the other order, kept for
\* comparison.)
DrawGuidesLegendsFirst(S, a) ==
  LET Colorbars(S1) == FlushColorbars(S1, a, S1.colorbar_dict[a])
  IN [Colorbars(FlushLegends(S, a, S.legend_dict[a])) EXCEPT !.ret = NoneRet]
DrawGuides(S, a) ==
  LET Legends(S1) == FlushLegends(S1, a, S1.legend_dict[a])
  IN [Legends(FlushColorbars(S, a, S.colorbar_dict[a])) EXCEPT !.ret = NoneRet]

\* ---------------------------------------------------------- inset zoom
\* An axes that may be an inset: whether it has an inset parent, the zoom
\* indicators the toolkit made for it (a rectangle and its connector lines,
\* each with its visibility and edge color) and which of them is recorded as
\* _inset_zoom_data (0: None).
NoZoom == [inset |-> FALSE, data |-> 0, indicators |-> <<>>]

\* The toolkit's indicate_inset: a visible rectangle with the properties
\* asked for, and the connectors, visible as the geometry has it.
IndicateInset(color, vis) ==
  [rect |-> [visible |-> TRUE, color |-> color],
   lines |-> [i \in DOMAIN vis |-> [visible |-> vis[i], color |-> "default"]]]

\* indicate_inset_zoom: without an inset parent ValueError; the first
\* indicator's lines get the properties; a later indicator takes over the
\* properties of the recorded one, whose rectangle and lines are hidden; the
\* new pair is recorded.  (IndicateInsetZoomKeepsLines does not hide the old
\* lines, kept for comparison.)
IndicateInsetZoomKeepsLines(Z, color, vis) ==
  IF ~Z.inset THEN [z |-> Z, exc |-> "ValueError"]
  ELSE
    LET new == IndicateInset(color, vis)
        n == Len(Z.indicators) + 1
    IN IF Z.data = 0
       THEN [z |-> [Z EXCEPT !.indicators = Append(@,
                       [new EXCEPT !.lines = [i \in DOMAIN vis |-> [@[i] EXCEPT !.color = color]]]),
                              !.data = n],
             exc |-> ""]
       ELSE
         LET prev == Z.indicators[Z.data]
         IN [z |-> [Z EXCEPT
                      !.indicators = Append([@ EXCEPT ![Z.data].rect.visible = FALSE],
                        [rect |-> prev.rect,
                         lines |-> [i \in DOMAIN vis |->
                                      [visible |-> vis[i], color |-> prev.lines[i].color]]]),
                      !.data = n],
             exc |-> ""]
IndicateInsetZoomOp(Z, color, vis) ==
  IF ~Z.inset THEN [z |-> Z, exc |-> "ValueError"]
  ELSE
    LET new == IndicateInset(color, vis)
        n == Len(Z.indicators) + 1
    IN IF Z.data = 0
       THEN [z |-> [Z EXCEPT !.indicators = Append(@,
                       [new EXCEPT !.lines = [i \in DOMAIN vis |-> [@[i] EXCEPT !.color = color]]]),
                              !.data = n],
             exc |-> ""]
       ELSE
         LET prev == Z.indicators[Z.data]
             hidden == [prev EXCEPT !.rect.visible = FALSE,
                                    !.lines = [i \in DOMAIN prev.lines |->
                                                 [prev.lines[i] EXCEPT !.visible = FALSE]]]
         IN [z |-> [Z EXCEPT
                      !.indicators = Append([@ EXCEPT ![Z.data] = hidden],
                        [rect |-> prev.rect,
                         lines |-> [i \in DOMAIN vis |->
                                      [visible |-> vis[i], color |-> prev.lines[i].color]]]),
                      !.data = n],
             exc |-> ""]

\* inset_axes: the new axes gets its inset parent; with zoom on it is given
\* its first indicator.
InsetAxesOp(Z, zoomed, color, vis) ==
  LET Made(Z1) == IF zoomed THEN IndicateInsetZoomOp(Z1, color, vis) ELSE [z |-> Z1, exc |-> ""]
  IN Made([Z EXCEPT !.inset = TRUE])

\* --------------------------------------------------------------- the state
NoTitleIn ==
  [loc |-> "None", title |-> ArgNone, style |-> NoStyle, rcloc |-> "None",
   above |-> "None", abc |-> AbcNone, dax |-> Main, dloc |-> "None",
   pad |-> NoPad, abcpad |-> NoPad]
NoLast ==
  [op |-> "init", prev |-> "init", ax |-> Main, guide |-> "", loc |-> "", queue |-> FALSE,
   inp |-> [h |-> ArgNone, l |-> ArgNone, kw |-> NoKw], tin |-> NoTitleIn,
   axis |-> "", share |-> NoAx, top |-> Main, before |-> <<>>, zin |-> <<>>,
   exc |-> "", ret |-> NoneRet]

\* The orders in which a set can list the subplots.
Orders == {o \in [1..Cardinality(Mains) -> Mains] : \A i, j \in DOMAIN o : o[i] = o[j] => i = j}
Ascending == [i \in 1..Cardinality(Mains) |-> i - 1 - MaxSiblings]

Init ==
  /\ legend_dict = [x \in Axes |-> <<>>]
  /\ colorbar_dict = [x \in Axes |-> <<>>]
  /\ panel_dict = [x \in Axes |-> [s \in Sides |-> <<>>]]
  /\ panel_side = [x \in Axes |-> NoSide]
  /\ panel_hidden = [x \in Axes |-> FALSE]
  /\ npanels = 0
  /\ legend_attr = [x \in Axes |-> 0]
  /\ artists = {}
  /\ guides = <<>>
  /\ registered = <<>>
  /\ calls = <<>>
  /\ last = NoLast
  /\ remove_raises \in BOOLEAN
  /\ title_dict = [x \in Axes |-> [n \in SlotNames |-> EmptySlot]]
  /\ title_above \in {[x \in Axes |-> v] : v \in {"True", "False", "panels"}}
  /\ title_loc = [x \in Axes |-> IF x = Main THEN RcTitleLoc ELSE "None"]
  /\ abc_loc \in {[x \in Axes |-> v] : v \in {"left", "upper left"}}
  /\ title_pad = [x \in Axes |-> 5]
  /\ abc_title_pad = [x \in Axes |-> 5]
  /\ child_axes = [x \in Axes |-> 0]
  /\ subplotspec \in {[x \in Axes |-> IF x = Main THEN p ELSE Absent] : p \in Places \cup {Free}}
  /\ panel_share = [x \in Axes |-> FALSE]
  /\ panel_share_group = [x \in Axes |-> [axis \in {"x", "y"} |-> FALSE]]
  /\ setups = <<>>
  /\ set_order \in Orders
  /\ number \in {[x \in Axes |-> IF x = Main THEN n ELSE NoNumber] : n \in 0..MaxNumber}
  /\ chain = <<>>
  /\ zoom = NoZoom
  /\ steps = 0

\* The history of pending entries: those still pending keep their order, a
\* new one (an operation makes at most one) comes last.
IsPendingIn(R, r) ==
  LET d == Dicts(R, r.guide)[Main]
  IN DictHas(d, r.k) /\ DictGet(d, r.k).tag = "pending"
PendingSet(R) ==
  {r \in [guide : {"legend", "colorbar"}, k : DictKeys(R.legend_dict[Main]) \cup DictKeys(R.colorbar_dict[Main])] :
     IsPendingIn(R, r)}
Registered(R) ==
  LET keep == SelectSeq(registered, LAMBDA r : IsPendingIn(R, r))
      new == PendingSet(R) \ {keep[i] : i \in DOMAIN keep}
  IN IF new = {} THEN keep ELSE Append(keep, CHOOSE r \in new : TRUE)

\* The result R of a handler becomes the next state.  A handler that would
\* pass a bound of the model is not taken.
CommitWithin(R, rec, bound) ==
  /\ steps < bound
  /\ R.exc # "BOUND"
  /\ steps' = steps + 1
  /\ legend_dict' = R.legend_dict
  /\ colorbar_dict' = R.colorbar_dict
  /\ panel_dict' = R.panel_dict
  /\ child_axes' = R.child_axes
  /\ subplotspec' = R.subplotspec
  /\ panel_share' = R.panel_share
  /\ panel_share_group' = R.panel_share_group
  /\ setups' = R.setups
  /\ number' = R.number
  /\ panel_side' = R.panel_side
  /\ panel_hidden' = R.panel_hidden
  /\ npanels' = R.npanels
  /\ legend_attr' = R.legend_attr
  /\ artists' = R.artists
  /\ guides' = R.guides
  /\ registered' = Registered(R)
  /\ calls' = R.calls
  /\ title_dict' = R.title_dict
  /\ title_above' = R.title_above
  /\ title_loc' = R.title_loc
  /\ abc_loc' = R.abc_loc
  /\ title_pad' = R.title_pad
  /\ abc_title_pad' = R.abc_title_pad
  /\ last' = [rec EXCEPT !.exc = R.exc, !.ret = R.ret, !.prev = last.op]
  /\ UNCHANGED <<remove_raises, set_order, chain, zoom>>
Commit(R, rec) == CommitWithin(R, rec, MaxSteps)

\* ----------------------------------------------------------- guide actions
\* The arguments of a legend or colorbar call: handles (mappable), labels
\* (values) and keyword arguments.  A bare handle with a label list; a handle
\* list with center=True, ncol=1 (a legend of two centered rows); no handles,
\* a label list and center=False.
Inputs ==
  { [h |-> ArgOne(1), l |-> ArgList(<<11>>), kw |-> NoKw],
    [h |-> ArgList(<<2, 3>>), l |-> ArgNone, kw |-> [center |-> 2, ncol |-> 1]],
    [h |-> ArgNone, l |-> ArgList(<<12>>), kw |-> [center |-> 1, ncol |-> 0]] }
LegendLocs == {"center right", "left"}
ColorbarLocs == {"upper right", "left"}

\* legend(handles, labels, loc=, queue=, **kwargs)
LegendOp(S, a, in, loc, queue) ==
  IF queue
  THEN [AddGuide(S, a, "legend", Pair(in.h, in.l), loc, in.kw) EXCEPT !.ret = NoneRet]
  ELSE DrawLegend(S, a, ToList(in.h), ToList(in.l), loc, in.kw)
Legend(a, in, loc, queue) ==
  Commit(LegendOp(St, a, in, loc, queue),
         [NoLast EXCEPT !.op = "legend", !.ax = a, !.guide = "legend",
                        !.loc = loc, !.queue = queue, !.inp = in])

\* colorbar(mappable, values, loc=, queue=, **kwargs)
ColorbarOp(S, a, in, loc, queue) ==
  IF queue
  THEN [AddGuide(S, a, "colorbar", Pair(in.h, in.l), loc, in.kw) EXCEPT !.ret = NoneRet]
  ELSE DrawColorbar(S, a, ToList(in.h), ToList(in.l), loc, in.kw)
Colorbar(a, in, loc, queue) ==
  Commit(ColorbarOp(St, a, in, loc, queue),
         [NoLast EXCEPT !.op = "colorbar", !.ax = a, !.guide = "colorbar",
                        !.loc = loc, !.queue = queue, !.inp = in])

\* draw() and get_tightbbox(): the flush, then the toolkit's own work.
Draw(a) ==
  Commit(DrawGuides(St, a), [NoLast EXCEPT !.op = "draw", !.ax = a])

\* panel_axes(side)
Panel(a, side) ==
  Commit(PanelAxes(St, a, side, TRUE), [NoLast EXCEPT !.op = "panel", !.ax = a, !.loc = side])

Existing == 0..npanels

Next ==
  \/ \E in \in Inputs, loc \in LegendLocs, q \in BOOLEAN : Legend(Main, in, loc, q)
  \/ \E in \in Inputs, loc \in ColorbarLocs, q \in BOOLEAN : Colorbar(Main, in, loc, q)
  \/ \E a \in Existing : Draw(a)
  \/ Panel(Main, "left")

\* The guide registries: no top panel is made, so the title preference is idle.
OneSubplot == subplotspec[Main] = Cell(0, 0) /\ set_order = Ascending /\ number[Main] = 1
InitGuide == Init /\ title_above[Main] = "True" /\ abc_loc[Main] = "left" /\ OneSubplot
Spec == InitGuide /\ [][Next]_vars


\* ----------------------------------------------------------- title actions
\* Title texts: a word, another word, and a text of one space.
Hello == <<"a">>
World == <<"b">>
Blank == <<SP>>
Red == [color |-> "r", font |-> "None"]

\* The arguments of _update_title: location, title, style, title.loc setting.
TitleInputs ==
  { [NoTitleIn EXCEPT !.loc = "center", !.title = ArgText(Hello)],
    [NoTitleIn EXCEPT !.loc = "center", !.style = Red],
    [NoTitleIn EXCEPT !.loc = "left", !.title = ArgText(Blank)],
    [NoTitleIn EXCEPT !.loc = "upper left", !.title = ArgText(World),
                      !.style = [color |-> "None", font |-> "f1"]],
    [NoTitleIn EXCEPT !.rcloc = "right", !.style = Red],
    [NoTitleIn EXCEPT !.rcloc = "upper left"],
    [NoTitleIn EXCEPT !.rcloc = "left", !.title = ArgText(World)] }
UpdateTitle(a, in) ==
  Commit(UpdateTitleOp(St, a, in.loc, in.title, in.style, in.rcloc),
         [NoLast EXCEPT !.op = "title", !.ax = a, !.loc = in.loc, !.tin = in])

\* The arguments of format(): title.above, abc, title, style.
FormatInputs ==
  { [NoTitleIn EXCEPT !.above = "True"],
    [NoTitleIn EXCEPT !.above = "False"],
    [NoTitleIn EXCEPT !.above = "panels"],
    [NoTitleIn EXCEPT !.abc = AbcStr(<<"A">>), !.title = ArgText(Hello), !.style = Red] }
Format(a, in) ==
  Commit(FormatOp(St, a, in), [NoLast EXCEPT !.op = "format", !.ax = a, !.tin = in])

\* _above_title() on its own
AboveTitleCall(a) ==
  Commit(AboveTitle(St, a), [NoLast EXCEPT !.op = "above", !.ax = a])

\* _transfer_text(src, dest) between two slots; the record keeps the text the
\* source held.
TransferSlot(a, n, b, m) ==
  LET T == TransferText(title_dict[a][n], title_dict[b][m])
      D1 == [title_dict EXCEPT ![a][n] = T.src]
  IN /\ <<a, n>> # <<b, m>>
     /\ Commit([St EXCEPT !.title_dict = [D1 EXCEPT ![b][m] = T.dest]],
               [NoLast EXCEPT !.op = "transfer", !.ax = a, !.loc = n,
                              !.tin = [NoTitleIn EXCEPT !.dax = b, !.dloc = m,
                                                        !.title = ArgText(title_dict[a][n].text)]])

TopColorbar == [h |-> ArgOne(1), l |-> ArgNone, kw |-> NoKw]

NextTitle ==
  \/ \E a \in Existing, in \in TitleInputs : UpdateTitle(a, in)
  \/ \E in \in FormatInputs : Format(Main, in)
  \/ \E a \in Existing : AboveTitleCall(a)
  \/ \E a \in Existing, b \in Existing : TransferSlot(a, "center", b, "center")
  \/ TransferSlot(Main, "left", Main, "right")
  \/ Panel(Main, "top")
  \/ Colorbar(Main, TopColorbar, "top", FALSE)

InitTitle == Init /\ remove_raises = FALSE /\ OneSubplot
SpecTitle == InitTitle /\ [][NextTitle]_vars

\* ----------------------------------------------------------- panel actions
\* panel_axes(side) on any axes, _hide_panel(), an outer legend or colorbar on
\* any axes (it asks for a panel and fills it), and the removal of a panel.
PanelSides == {"left", "bottom"}
FillLegend == [h |-> ArgOne(1), l |-> ArgList(<<11>>), kw |-> NoKw]
AddPanel(a, side) ==
  CommitWithin(PanelAxes(St, a, side, TRUE),
               [NoLast EXCEPT !.op = "panel", !.ax = a, !.loc = side], MaxPanelSteps)
Hide(a) ==
  CommitWithin(HidePanel(St, a), [NoLast EXCEPT !.op = "hide", !.ax = a], MaxPanelSteps)
OuterLegend(a, side) ==
  CommitWithin(LegendOp(St, a, FillLegend, side, FALSE),
               [NoLast EXCEPT !.op = "legend", !.ax = a, !.guide = "legend",
                              !.loc = side, !.inp = FillLegend], MaxPanelSteps)
OuterColorbar(a, side) ==
  CommitWithin(ColorbarOp(St, a, TopColorbar, side, FALSE),
               [NoLast EXCEPT !.op = "colorbar", !.ax = a, !.guide = "colorbar",
                              !.loc = side, !.inp = TopColorbar], MaxPanelSteps)
InStack(p) == \E x \in Axes, s \in Sides : \E i \in DOMAIN panel_dict[x][s] : panel_dict[x][s][i] = p
RemovePanel(p) ==
  /\ InStack(p)
  /\ CommitWithin(RemovePanelOp(St, p), [NoLast EXCEPT !.op = "remove", !.ax = p],
                  MaxPanelSteps)

NextPanel ==
  \/ \E a \in Existing, side \in PanelSides : AddPanel(a, side)
  \/ \E a \in Existing : Hide(a)
  \/ \E a \in Existing : OuterLegend(a, "left")
  \/ \E a \in Existing : OuterColorbar(a, "bottom")
  \/ \E p \in Existing : RemovePanel(p)

InitPanel == Init /\ title_above[Main] = "True" /\ abc_loc[Main] = "left" /\ OneSubplot
SpecPanel == InitPanel /\ [][NextPanel]_vars

\* ------------------------------------------------------------ grid actions
\* A further axes is made at a place of the grid, or freestanding (its
\* construction ends with _auto_share); _get_share_axes(x) is asked of an
\* axes; an axes is hidden.
AxesRet(axs) == [NoneRet EXCEPT !.tag = "axes", !.ids = axs]
ExistingMains == {m \in Mains : subplotspec[m].kind # "absent"}
NextSibling == -Cardinality(ExistingMains)
AddSubplot(place) ==
  /\ Cardinality(ExistingMains) <= MaxSiblings
  /\ LET self == NextSibling
     IN CommitWithin(ConstructTitle(AutoShare([St EXCEPT !.subplotspec[self] = place,
                                                          !.number[self] = 1 - self],
                                              self), self),
                     [NoLast EXCEPT !.op = "subplot", !.ax = self], MaxGridSteps)
ShareAxes(a, x) ==
  CommitWithin([St EXCEPT !.ret = AxesRet(GetShareAxes(St, a, x))],
               [NoLast EXCEPT !.op = "share_axes", !.ax = a, !.axis = x], MaxGridSteps)
HideMain(a) ==
  CommitWithin(HidePanel(St, a), [NoLast EXCEPT !.op = "hide", !.ax = a], MaxGridSteps)

NextGrid ==
  \/ \E place \in Places \cup {Free} : AddSubplot(place)
  \/ \E a \in ExistingMains, x \in {"x", "y"} : ShareAxes(a, x)
  \/ \E a \in ExistingMains : HideMain(a)

InitGrid ==
  /\ Init /\ title_above[Main] = "True" /\ abc_loc[Main] = "left" /\ remove_raises = FALSE
  /\ subplotspec[Main] = Cell(0, 0) /\ number[Main] = 1
SpecGrid == InitGrid /\ [][NextGrid]_vars

\* ----------------------------------------------------------- share actions
\* A figure of two subplots side by side.  panel_axes(side, share=...) on one
\* of them, an outer colorbar (a filled panel), _hide_panel on a panel,
\* _auto_share, and _share_short_axis(share, side).
Sibling == -1
SharePanel(m, side, share) ==
  CommitWithin(PanelAxes(St, m, side, share),
               [NoLast EXCEPT !.op = "panel", !.ax = m, !.loc = side], MaxShareSteps)
FillColorbar(a, side) ==
  CommitWithin(ColorbarOp(St, a, TopColorbar, side, FALSE),
               [NoLast EXCEPT !.op = "colorbar", !.ax = a, !.guide = "colorbar",
                              !.loc = side, !.inp = TopColorbar], MaxShareSteps)
HideShared(p) ==
  CommitWithin(HidePanel(St, p), [NoLast EXCEPT !.op = "hide", !.ax = p], MaxShareSteps)
AutoShareCall(m) ==
  CommitWithin(AutoShare(St, m), [NoLast EXCEPT !.op = "auto_share", !.ax = m],
               MaxShareSteps)
ShareShort(a, share, side) ==
  CommitWithin(ShareShortAxis(St, a, share, side),
               [NoLast EXCEPT !.op = "share_short", !.ax = a, !.share = share,
                              !.loc = side], MaxShareSteps)

NextShare ==
  \/ \E side \in Sides : SharePanel(Main, side, TRUE)
  \/ SharePanel(Main, "bottom", FALSE)
  \/ SharePanel(Sibling, "left", TRUE)
  \/ FillColorbar(Main, "left")
  \/ \E p \in 1..npanels : HideShared(p)
  \/ \E m \in {Main, Sibling} : AutoShareCall(m)
  \/ \E a \in {Main} \cup (1..Min(npanels, 1)), share \in {Sibling, NoAx} :
       ShareShort(a, share, "left")

InitShare ==
  /\ legend_dict = [x \in Axes |-> <<>>]
  /\ colorbar_dict = [x \in Axes |-> <<>>]
  /\ panel_dict = [x \in Axes |-> [s \in Sides |-> <<>>]]
  /\ panel_side = [x \in Axes |-> NoSide]
  /\ panel_hidden = [x \in Axes |-> FALSE]
  /\ npanels = 0
  /\ legend_attr = [x \in Axes |-> 0]
  /\ artists = {}
  /\ guides = <<>>
  /\ registered = <<>>
  /\ calls = <<>>
  /\ last = NoLast
  /\ remove_raises = FALSE
  /\ title_dict = [x \in Axes |-> [n \in SlotNames |-> EmptySlot]]
  /\ title_above = [x \in Axes |-> "True"]
  /\ title_loc = [x \in Axes |-> IF x \in {Main, Sibling} THEN RcTitleLoc ELSE "None"]
  /\ abc_loc = [x \in Axes |-> "left"]
  /\ title_pad = [x \in Axes |-> 5]
  /\ abc_title_pad = [x \in Axes |-> 5]
  /\ child_axes = [x \in Axes |-> 0]
  /\ subplotspec = [x \in Axes |-> IF x = Main THEN Cell(0, 0)
                                   ELSE IF x = Sibling THEN Cell(0, 1) ELSE Absent]
  /\ panel_share = [x \in Axes |-> FALSE]
  /\ panel_share_group = [x \in Axes |-> [axis \in {"x", "y"} |-> FALSE]]
  /\ setups = <<>>
  /\ set_order = Ascending
  /\ number = [x \in Axes |-> IF x = Main THEN 1 ELSE IF x = Sibling THEN 2 ELSE NoNumber]
  /\ chain = <<>>
  /\ zoom = NoZoom
  /\ steps = 0
SpecShare == InitShare /\ [][NextShare]_vars

\* ------------------------------------------------------------ label actions
\* _update_abc with an abc setting, and the number setter, on the main axes or
\* on a panel (a panel has no number).
AbcStyles ==
  { AbcNone, AbcTrue, AbcFalse, AbcInt, AbcStr(<<>>), AbcStr(<<"a">>), AbcStr(<<"A", ".">>),
    AbcStr(<<"(", "a", ")", "A">>), AbcStr(<<"b", ".">>) }
NumberInputs == {NumNone, NumOther, NumInt(0), NumInt(-1), NumInt(1), NumInt(27), NumInt(53)}
UpdateAbc(a, abc) ==
  CommitWithin(UpdateAbcOp(St, a, abc, "None", NoStyle),
               [NoLast EXCEPT !.op = "abc", !.ax = a, !.tin = [NoTitleIn EXCEPT !.abc = abc]],
               MaxAbcSteps)
SetNumber(a, num) ==
  CommitWithin(SetNumberOp(St, a, num),
               [NoLast EXCEPT !.op = "number", !.ax = a, !.share = num.v, !.axis = num.t],
               MaxAbcSteps)

NextAbc ==
  \/ \E abc \in AbcStyles : UpdateAbc(Main, abc)
  \/ \E num \in NumberInputs : SetNumber(Main, num)

InitAbc ==
  /\ Init /\ title_above[Main] = "True" /\ abc_loc[Main] = "left" /\ remove_raises = FALSE
  /\ subplotspec[Main] = Cell(0, 0) /\ set_order = Ascending
SpecAbc == InitAbc /\ [][NextAbc]_vars

\* ================================================================== claims
Stepped == steps' # steps
Resolved(e) == e.tag \in {"obj", "rows"}
Guides == {"legend", "colorbar"}
MainDict(g) == IF g = "legend" THEN legend_dict[Main] ELSE colorbar_dict[Main]
MainDictNext(g) == IF g = "legend" THEN legend_dict'[Main] ELSE colorbar_dict'[Main]
IsPendingAt(d, k) == DictHas(d, k) /\ DictGet(d, k).tag = "pending"
IsResolvedAt(d, k) == DictHas(d, k) /\ Resolved(DictGet(d, k))
CallsFor(cs, g, k) == {i \in DOMAIN cs : cs[i].guide = g /\ cs[i].loc = k}
IdsOf(e) == {e.ids[i] : i \in DOMAIN e.ids}
QueuedStep == Stepped /\ last'.op \in Guides /\ last'.queue
DirectStep == Stepped /\ last'.op \in Guides /\ ~last'.queue
FlushStep(a) == Stepped /\ last'.op = "draw" /\ last'.ax = a

\* C1: queued registrations of one kind under one key accumulate: the pending
\* entry's handles and labels are the concatenation of the supplied lists in
\* call order, its kwargs their shallow merge, later keys winning; a following
\* flush makes exactly one collaborator call for the key, with the accumulated
\* lists, and leaves under the key the resolved guide made by that call.
C1_Accumulates ==
  QueuedStep /\ last'.exc = "" =>
    LET g == last'.guide
        k == last'.loc
        in == last'.inp
        old == IF IsPendingAt(MainDict(g), k) THEN DictGet(MainDict(g), k)
               ELSE Pending(<<>>, <<>>, NoKw)
    IN /\ DictHas(MainDictNext(g), k)
       /\ DictGet(MainDictNext(g), k) =
            Pending(old.h \o ToList(in.h), old.l \o ToList(in.l), KwUpdate(old.kw, in.kw))
C1_FlushesOnce ==
  FlushStep(Main) =>
    \A g \in Guides : \A k \in DictKeys(MainDict(g)) :
      IsPendingAt(MainDict(g), k) =>
        LET e == DictGet(MainDict(g), k)
            cs == CallsFor(calls', g, k)
        IN /\ Cardinality(cs) = 1
           /\ \A i \in cs : calls'[i].h = e.h /\ calls'[i].l = e.l /\ calls'[i].kw = e.kw
           /\ IsResolvedAt(MainDictNext(g), k)
           /\ \A id \in IdsOf(DictGet(MainDictNext(g), k)) :
                id > Len(guides) /\ guides'[id].kind = g /\ guides'[id].loc = k
C1_QueueThenFlush == [][C1_Accumulates /\ C1_FlushesOnce]_vars

\* C2: a registration without queueing under a kind and key that holds a
\* resolved object (one guide or a tuple of row legends) detaches every old
\* object exactly once before the new entry is installed.
C2_OldDetachedOnce ==
  [][DirectStep =>
       \A g \in Guides : \A x \in Axes : \A k \in DictKeys(Dicts(St, g)[x]) :
         LET d == Dicts(St, g)[x]
             dn == Dicts(St', g)[x]
         IN (IsResolvedAt(d, k) /\ IsResolvedAt(dn, k) /\ DictGet(dn, k) # DictGet(d, k)) =>
              \A id \in IdsOf(DictGet(d, k)) :
                guides'[id].rm = guides[id].rm + 1 /\ ~Attached(St', id)]_vars

\* C3: after a flush neither registry of the axes holds a pending entry; each
\* key that held one holds the object the collaborator returned for that key,
\* and that object is in the scene.
C3_FlushResolvesAll ==
  [][\A a \in Axes : FlushStep(a) =>
       \A g \in Guides :
         LET d == Dicts(St, g)[a]
             dn == Dicts(St', g)[a]
         IN /\ \A k \in DictKeys(dn) : DictGet(dn, k).tag # "pending"
            /\ \A k \in DictKeys(d) :
                 DictGet(d, k).tag = "pending" =>
                   /\ IsResolvedAt(dn, k)
                   /\ \A id \in IdsOf(DictGet(dn, k)) :
                        /\ id > Len(guides)
                        /\ guides'[id].kind = g /\ guides'[id].loc = k
                        /\ Attached(St', id)]_vars

\* C4 (as claimed): a flush calls the collaborator on the pending entries in
\* the order their keys were registered, legends and colorbars interleaved.
CallKeys(cs) == [i \in DOMAIN cs |-> [guide |-> cs[i].guide, k |-> cs[i].loc]]
C4_RegistrationOrder ==
  [][FlushStep(Main) /\ last'.exc = "" => CallKeys(calls') = registered]_vars

\* C4 (amended): a flush calls the collaborator on the pending colorbars in
\* the order their keys were registered, then on the pending legends in the
\* order their keys were registered; a flush that raises stops at the entry
\* that raised.
OfGuide(r, g) == r.guide = g
IsPrefix(s, t) == Len(s) <= Len(t) /\ s = SubSeq(t, 1, Len(s))
ColorbarsThenLegends ==
  SelectSeq(registered, LAMBDA r : OfGuide(r, "colorbar"))
    \o SelectSeq(registered, LAMBDA r : OfGuide(r, "legend"))
C4_ColorbarsThenLegends ==
  [][FlushStep(Main) =>
       /\ IsPrefix(CallKeys(calls'), ColorbarsThenLegends)
       /\ (last'.exc = "" => CallKeys(calls') = ColorbarsThenLegends)]_vars
C4_Witness ==
  /\ last.op = "draw" /\ last.ax = Main /\ last.exc = ""
  /\ Len(calls) = 2 /\ calls[1].guide = "colorbar" /\ calls[2].guide = "legend"

\* C5: a flush of registries that hold only resolved entries calls the
\* collaborator zero times, detaches nothing and leaves both registries as
\* they were.
OnlyResolved(a) ==
  /\ \A k \in DictKeys(legend_dict[a]) : Resolved(DictGet(legend_dict[a], k))
  /\ \A k \in DictKeys(colorbar_dict[a]) : Resolved(DictGet(colorbar_dict[a], k))
C5_FlushIdempotent ==
  [][\A a \in Axes : FlushStep(a) /\ OnlyResolved(a) =>
       /\ calls' = <<>>
       /\ last'.exc = ""
       /\ UNCHANGED <<legend_dict, colorbar_dict, guides, artists, legend_attr>>]_vars
C5_Witness ==
  /\ last.op = "draw" /\ last.prev = "draw" /\ last.ax = Main /\ calls = <<>>
  /\ \E k \in DictKeys(legend_dict[Main]) : DictGet(legend_dict[Main], k).tag = "rows"

\* C6: guides drawn without queueing at an outer location stack: a guide that
\* fills a panel is never removed or replaced, it stays in the scene.
C6_OuterGuidesStack ==
  \A id \in DOMAIN guides :
    guides[id].ax # Main => guides[id].rm = 0 /\ Attached(St, id)

\* C7: a queued call at a key that holds a guide in any state returns None
\* without raising and leaves a pending entry whose handles end with the
\* supplied ones.
EndsWith(s, t) == Len(t) <= Len(s) /\ SubSeq(s, Len(s) - Len(t) + 1, Len(s)) = t
C7_QueueNeverRaises ==
  (last.op \in Guides /\ last.queue) =>
    /\ last.exc = ""
    /\ last.ret = NoneRet
    /\ IsPendingAt(MainDict(last.guide), last.loc)
    /\ EndsWith(DictGet(MainDict(last.guide), last.loc).h, ToList(last.inp.h))


\* C8 (as claimed): after _transfer_text the source slot reads empty and the
\* destination holds the text the source held, with the source's color and
\* font, whatever the source text was.
TransferStep == Stepped /\ last'.op = "transfer"
StyleCopied(src, destNext) == destNext.color = src.color /\ destNext.font = src.font
C8_TransferAlwaysMoves ==
  [][TransferStep =>
       LET src == title_dict[last'.ax][last'.loc]
           srcNext == title_dict'[last'.ax][last'.loc]
           destNext == title_dict'[last'.tin.dax][last'.tin.dloc]
       IN /\ srcNext.text = <<>>
          /\ destNext.text = src.text
          /\ StyleCopied(src, destNext)]_vars

\* C8 (amended): _transfer_text always copies the source's color and font to
\* the destination.  A source text that is not blank after stripping moves:
\* the destination holds it and the source reads empty.  A blank source text
\* (empty or whitespace) moves nothing: both texts stay as they were.
C8_TransferMovesNonBlank ==
  [][TransferStep =>
       LET src == title_dict[last'.ax][last'.loc]
           dest == title_dict[last'.tin.dax][last'.tin.dloc]
           srcNext == title_dict'[last'.ax][last'.loc]
           destNext == title_dict'[last'.tin.dax][last'.tin.dloc]
       IN /\ StyleCopied(src, destNext)
          /\ Strip(src.text) # <<>> => srcNext.text = <<>> /\ destNext.text = src.text
          /\ Strip(src.text) = <<>> => srcNext.text = src.text /\ destNext.text = dest.text]_vars
C8_Witness ==
  /\ last.op = "transfer"
  /\ last.tin.title = ArgText(Blank)
  /\ title_dict[last.ax][last.loc].text = Blank
  /\ title_dict[last.tin.dax][last.tin.dloc].text = <<>>

\* C9: _update_title(loc, None, **style) sets the style of the slot at loc,
\* leaves that slot's text as it was, and changes no other slot's text.
TitleStyleStep ==
  Stepped /\ last'.op = "title" /\ last'.loc # "None" /\ last'.tin.title = ArgNone
C9_StyleOnlyUpdate ==
  [][TitleStyleStep =>
       LET slotNext == title_dict'[last'.ax][last'.loc]
           style == last'.tin.style
       IN /\ style.color # "None" => slotNext.color = style.color
          /\ style.font # "None" => slotNext.font = style.font
          /\ \A x \in Axes : \A n \in SlotNames :
               title_dict'[x][n].text = title_dict[x][n].text]_vars

\* C10: _above_title on an axes with a top panel moves the content of left,
\* center and right (and of abc when the abc location is one of them) between
\* the axes and its outermost top panel: main to panel when title.above is
\* True, or is 'panels' and that panel is not hidden; panel to main otherwise.
\* Content never flows against that direction.  Without a top panel no slot
\* changes.  The inset slots, and abc when its location is an inset one, are
\* never touched.
AboveStep == Stepped /\ last'.op = "above"
HasContent(slot) == Strip(slot.text) # <<>>
MovedNames(a) == OuterNames \cup (IF abc_loc[a] \in OuterNames THEN {"abc"} ELSE {})
ContentMoved(src, dest, n) ==
  IF HasContent(title_dict[src][n])
  THEN /\ title_dict'[dest][n].text = title_dict[src][n].text
       /\ title_dict'[src][n].text = <<>>
  ELSE /\ title_dict'[dest][n].text = title_dict[dest][n].text
       /\ title_dict'[src][n].text = title_dict[src][n].text
C10_AboveTitleDirection ==
  [][AboveStep =>
       LET a == last'.ax
           tops == panel_dict[last'.ax]["top"]
       IN IF tops = <<>> THEN title_dict' = title_dict
          ELSE
            LET pax == tops[Len(tops)]
                toPanel == \/ title_above[Main] = "True"
                           \/ title_above[Main] = "panels" /\ ~panel_hidden[pax]
            IN /\ \A n \in MovedNames(Main) :
                    IF toPanel THEN ContentMoved(Main, pax, n) ELSE ContentMoved(pax, Main, n)
               /\ \A x \in Axes : \A n \in SlotNames \ MovedNames(Main) :
                    title_dict'[x][n] = title_dict[x][n]
               /\ \A x \in Axes \ {Main, pax} : title_dict'[x] = title_dict[x]]_vars
C10_Witness ==
  /\ last.op = "above" /\ last.ax = Main /\ last.prev = "colorbar"
  /\ title_above[Main] = "panels"
  /\ panel_dict[Main]["top"] # <<>>
  /\ panel_hidden[panel_dict[Main]["top"][Len(panel_dict[Main]["top"])]]
  /\ title_dict[Main]["center"].text = Hello
  /\ title_dict[panel_dict[Main]["top"][Len(panel_dict[Main]["top"])]]["center"].text = <<>>

\* C11: every panel stack lists its panels in the order of the calls that made
\* them, inside to outside, without duplicates: a new panel is appended as the
\* outermost entry of the stack of its side and no other stack changes;
\* removing a panel leaves the others of every stack in their relative order;
\* hiding or filling a panel, and every other step, leaves every stack as it
\* was apart from the appended panel.
NoDuplicates(seq) == \A i, j \in DOMAIN seq : seq[i] = seq[j] => i = j
Without(seq, p) == SelectSeq(seq, LAMBDA q : q # p)
C11_StackOrder ==
  [][Stepped =>
       \A x \in Axes : \A s \in Sides :
         LET old == panel_dict[x][s]
             new == panel_dict'[x][s]
             made == npanels' = npanels + 1 /\ panel_side'[npanels'] = s
                     /\ x = last'.ax
         IN /\ NoDuplicates(new)
            /\ \A i, j \in DOMAIN new : i < j => new[i] < new[j]
            /\ IF last'.op = "remove" THEN new = Without(old, last'.ax)
               ELSE IF made THEN new = Append(old, npanels')
               ELSE new = old]_vars
C11_Witness ==
  /\ last.op = "remove" /\ last.ax = 2
  /\ panel_dict[Main]["left"] = <<1, 3>>
  /\ panel_hidden[1]

\* C12: a panel never gets panels of its own.  panel_axes on a panel, and an
\* outer legend or colorbar on a panel (which asks for a panel to fill), fail
\* with RuntimeError and leave every panel stack and the number of panels as
\* they were; after every step the four stacks of every panel are empty.
IsPanel(a) == panel_side[a] # NoSide
AsksPanel == last'.op \in {"panel", "legend", "colorbar"} /\ last'.loc \in Sides
C12_NoNestedPanels ==
  [][Stepped =>
       /\ (AsksPanel /\ IsPanel(last'.ax) =>
             /\ last'.exc = "RuntimeError"
             /\ panel_dict' = panel_dict
             /\ npanels' = npanels)
       /\ \A p \in Axes : panel_side'[p] # NoSide =>
            \A s \in Sides : panel_dict'[p][s] = <<>>]_vars
C12_Witness ==
  /\ last.op = "colorbar" /\ last.loc = "bottom"
  /\ IsPanel(last.ax) /\ last.exc = "RuntimeError"
  /\ panel_dict[Main]["left"] = <<last.ax>>

\* C13: _hide_panel sets the hidden flag of the axes and nothing else: the
\* panel stays in its stack and no title slot changes.  The listing
\* _iter_axes(hidden=True) of an axes is the same before and after, in the
\* same order, and in every state the listing _iter_axes(hidden=False) is the
\* listing with hidden=True less exactly the hidden axes and their child axes.
HideStep == Stepped /\ last'.op = "hide"
Listing(S, a, hidden) == IterAxes(S, a, hidden, TRUE, AllSides)
StNext ==
  [St EXCEPT !.panel_dict = panel_dict', !.panel_hidden = panel_hidden',
             !.child_axes = child_axes']
Shown(S, seq) == SelectSeq(seq, LAMBDA e : ~S.panel_hidden[e.ax])
C13_HideKeepsListing ==
  [][Stepped =>
       /\ \A a \in Axes :
            Listing(StNext, a, FALSE) = Shown(StNext, Listing(StNext, a, TRUE))
       /\ (HideStep =>
             /\ panel_hidden' = [panel_hidden EXCEPT ![last'.ax] = TRUE]
             /\ panel_dict' = panel_dict
             /\ title_dict' = title_dict
             /\ \A a \in Axes : Listing(StNext, a, TRUE) = Listing(St, a, TRUE))]_vars
C13_Witness ==
  /\ last.op = "hide" /\ last.ax = 2
  /\ panel_dict[Main]["bottom"] = <<1, 2>>
  /\ child_axes[1] = 1 /\ panel_hidden[1] /\ panel_hidden[2]
  /\ Listing(St, Main, FALSE) = <<[ax |-> Main, child |-> 0]>>
  /\ Len(Listing(St, Main, TRUE)) = 4

\* C14 (as stated): _get_share_axes(axis) on a subplot returns a list that
\* holds the subplot and every other subplot that is not hidden and spans the
\* same rows (for x-sharing) or the same columns (for y-sharing), each once,
\* the reference first: the leftmost of them for x-sharing, the bottommost for
\* y-sharing.
ShareAxesStep == Stepped /\ last'.op = "share_axes"
Other(x) == IF x = "x" THEN "y" ELSE "x"
SameRange(a, x) ==
  {a} \cup {m \in ExistingMains : /\ subplotspec[m].kind = "subplot"
                                   /\ ~panel_hidden[m]
                                   /\ RangeSubplotspec(St, m, x) = RangeSubplotspec(St, a, x)}
Lists(group) ==
  LET out == last'.ret.ids
  IN NoDuplicates(out) /\ {out[i] : i \in DOMAIN out} = group
C14_ReferenceLeftForX ==
  [][ShareAxesStep /\ subplotspec[last'.ax].kind = "subplot" =>
       LET out == last'.ret.ids
       IN /\ Lists(SameRange(last'.ax, Other(last'.axis)))
          /\ \A i \in DOMAIN out :
               IF last'.axis = "x"
               THEN subplotspec[out[1]].cols[1] <= subplotspec[out[i]].cols[1]
               ELSE subplotspec[out[1]].rows[2] >= subplotspec[out[i]].rows[2]]_vars

\* C14 (amended): _get_share_axes(axis) on a subplot returns a list that holds
\* the subplot and every other subplot that is not hidden and has the same
\* column range (for 'x') or row range (for 'y'), each once, the reference
\* first: for x-sharing one of the bottommost of them (no listed axes starts
\* at a lower row), for y-sharing one of the leftmost (no listed axes ends at
\* a column further left).
C14_ReferenceBottomForX ==
  [][ShareAxesStep /\ subplotspec[last'.ax].kind = "subplot" =>
       LET out == last'.ret.ids
       IN /\ last'.exc = ""
          /\ Lists(SameRange(last'.ax, last'.axis))
          /\ \A i \in DOMAIN out :
               IF last'.axis = "x"
               THEN subplotspec[out[1]].rows[1] >= subplotspec[out[i]].rows[1]
               ELSE subplotspec[out[1]].cols[2] <= subplotspec[out[i]].cols[2]]_vars
C14_Witness ==
  /\ last.op = "share_axes" /\ last.axis = "x" /\ last.ax = Main
  /\ subplotspec[-1] = Cell(1, 0) /\ subplotspec[-2] = Tall(0)
  /\ Len(last.ret.ids) = 3 /\ last.ret.ids[1] = -1

\* C15: when two or more of the axes that _get_share_axes lists hold the same
\* extreme position, the call raises AmbiguousShareError and picks none.
ExtremeKey(a, x) ==
  IF x = "x" THEN subplotspec[a].rows[1] ELSE subplotspec[a].cols[2]
Tied(a, x) ==
  LET group == SameRange(a, x)
      best == {m \in group : \A n \in group :
                 IF x = "x" THEN ExtremeKey(m, x) >= ExtremeKey(n, x)
                 ELSE ExtremeKey(m, x) <= ExtremeKey(n, x)}
  IN Cardinality(best) >= 2
C15_TieRaises ==
  [][ShareAxesStep /\ subplotspec[last'.ax].kind = "subplot"
       /\ Tied(last'.ax, last'.axis) =>
       last'.exc = "AmbiguousShareError"]_vars

\* C16 (as stated): _get_share_axes on a freestanding axes fails with
\* NotASubplotError and establishes no share assignment.
FreeStep == ShareAxesStep /\ subplotspec[last'.ax].kind = "free"
C16_FreestandingRaises ==
  [][FreeStep => last'.exc = "NotASubplotError" /\ setups' = <<>>]_vars

\* C16 (amended): _get_share_axes on a freestanding axes raises nothing and
\* returns the list that holds that axes alone; no share assignment is
\* established, neither by the call nor by the _auto_share that ends the
\* construction of a freestanding axes, and no list of another axes holds a
\* freestanding axes.
C16_FreestandingAlone ==
  [][Stepped =>
       /\ (FreeStep =>
             last'.exc = "" /\ last'.ret.ids = <<last'.ax>> /\ setups' = <<>>)
       /\ (last'.op = "subplot" /\ subplotspec'[last'.ax].kind = "free" =>
             last'.exc = "" /\ setups' = <<>>)
       /\ (ShareAxesStep =>
             \A i \in DOMAIN last'.ret.ids :
               last'.ret.ids[i] # last'.ax => subplotspec[last'.ret.ids[i]].kind = "subplot")]_vars
C16_Witness ==
  /\ last.op = "share_axes" /\ last.ax = -2 /\ last.axis = "x"
  /\ subplotspec[-2] = Free /\ subplotspec[-1] = Cell(0, 0)
  /\ last.ret.ids = <<-2>> /\ last.exc = ""

\* A panel takes part in the sharing of its main axes when it is not hidden
\* and its share flag is set; the stacks are read after the step.
EligibleNext(m, side) ==
  SelectSeq(panel_dict'[m][side], LAMBDA p : ~panel_hidden'[p] /\ panel_share'[p])
HasSetup(a, axis, share) ==
  \E i \in DOMAIN setups' : setups'[i] = [ax |-> a, axis |-> axis, share |-> share]
AutoShareStep ==
  /\ Stepped /\ last'.exc = ""
  /\ last'.op \in {"auto_share", "panel"}
  /\ panel_side'[last'.ax] = NoSide
StackSides == <<[side |-> "bottom", axis |-> "x"], [side |-> "top", axis |-> "x"],
                [side |-> "left", axis |-> "y"], [side |-> "right", axis |-> "y"]>>

LongAxis(side) == IF side \in {"bottom", "top"} THEN "x" ELSE "y"
ShortStep == Stepped /\ last'.op = "share_short"
NotHidden(paxs) == SelectSeq(paxs, LAMBDA p : ~panel_hidden[p])
C18_ShortAxisPairs ==
  [][ShortStep =>
       LET caxs == NotHidden(panel_dict[last'.ax][last'.loc])
           paxs == IF last'.share = NoAx THEN <<>>
                   ELSE NotHidden(panel_dict[last'.share][last'.loc])
           n == IF last'.share = NoAx \/ panel_side[last'.ax] # NoSide THEN 0
                ELSE Min(Len(caxs), Len(paxs))
           axis == IF last'.loc \in {"left", "right"} THEN "x" ELSE "y"
       IN /\ last'.exc = ""
          /\ setups' = [i \in 1..n |-> [ax |-> caxs[i], axis |-> axis, share |-> paxs[i]]]
          /\ panel_dict' = panel_dict /\ panel_hidden' = panel_hidden]_vars
C18_Witness ==
  /\ last.op = "share_short" /\ last.ax = Main /\ last.share = Sibling
  /\ panel_dict[Main]["left"] = <<1, 2>> /\ panel_hidden[1] /\ ~panel_hidden[2]
  /\ panel_dict[Sibling]["left"] = <<3>>
  /\ setups = <<[ax |-> 2, axis |-> "x", share |-> 3]>>

\* C19 (as stated): when _update_title is called without a location and the
\* title.loc setting names another location than the remembered one, the old
\* slot's text is empty afterwards, the new slot holds the title text and the
\* remembered location is the new one.
TitleLocStep == Stepped /\ last'.op = "title" /\ last'.tin.loc = "None"
NewLoc == IF last'.tin.rcloc # "None" THEN last'.tin.rcloc ELSE title_loc[last'.ax]
LocChanges == TitleLocStep /\ NewLoc # title_loc[last'.ax]
TitleText ==
  IF last'.tin.title # ArgNone THEN last'.tin.title.v
  ELSE title_dict[last'.ax][title_loc[last'.ax]].text
C19_TitleFollowsLoc ==
  [][LocChanges =>
       /\ title_dict'[last'.ax][title_loc[last'.ax]].text = <<>>
       /\ title_dict'[last'.ax][NewLoc].text = TitleText
       /\ title_loc'[last'.ax] = NewLoc]_vars

\* C19 (amended): when _update_title is called without a location, the
\* remembered location becomes the title.loc setting (it stays when there is
\* no setting).  When that is another location than the remembered one, a
\* text of the old slot that is not blank leaves the old slot and becomes the
\* text of the new slot, unless the call brings a title text, which the new
\* slot then holds; a blank text stays in the old slot and the new slot keeps
\* its own.  The _above_title that ends the call then settles the left, center
\* and right slots (and abc there) between the axes and its outermost top
\* panel as it always does, so that of a slot with content the side chosen by
\* title.above holds the text.  The first _update_title of an axes, with no
\* location remembered, transfers nothing: a new panel's inset slots are
\* empty and its remembered location is the setting.
Settled(a, n, mid) ==
  LET tops == panel_dict[a]["top"]
      pax == tops[Len(tops)]
      toPanel == \/ title_above[a] = "True"
                 \/ title_above[a] = "panels" /\ ~panel_hidden[pax]
  IN IF tops = <<>> \/ n \notin MovedNames(a) THEN title_dict'[a][n].text = mid
     ELSE IF toPanel
          THEN IF Strip(mid) # <<>>
               THEN title_dict'[a][n].text = <<>> /\ title_dict'[pax][n].text = mid
               ELSE title_dict'[a][n].text = mid
          ELSE IF HasContent(title_dict[pax][n])
               THEN title_dict'[a][n].text = title_dict[pax][n].text
               ELSE title_dict'[a][n].text = mid
C19_TitleFollowsLocUnlessBlank ==
  [][Stepped =>
       /\ (TitleLocStep => title_loc'[last'.ax] = NewLoc)
       /\ (LocChanges =>
             LET a == last'.ax
                 old == title_loc[a]
                 t == title_dict[a][old].text
                 moved == Strip(t) # <<>>
                 given == last'.tin.title # ArgNone
             IN /\ Settled(a, old, IF moved THEN <<>> ELSE t)
                /\ Settled(a, NewLoc, IF given THEN last'.tin.title.v
                                      ELSE IF moved THEN t
                                      ELSE title_dict[a][NewLoc].text))
       /\ (npanels' = npanels + 1 =>
             /\ title_loc[npanels'] = "None" /\ title_loc'[npanels'] = RcTitleLoc
             /\ \A n \in InsetNames : title_dict'[npanels'][n] = EmptySlot)]_vars
C19_Witness ==
  /\ last.op = "title" /\ last.ax = Main
  /\ last.tin.loc = "None" /\ last.tin.rcloc = "right" /\ last.tin.title = ArgNone
  /\ last.prev = "title"
  /\ title_loc[Main] = "right"
  /\ title_dict[Main]["center"].text = <<>>
  /\ title_dict[Main]["right"].text = Hello

\* The label of number n in the style str, character by character: the
\* characters before the first 'a' or 'A' stay, then k = (n - 1) div 26 + 1
\* times the letter of index (n - 1) mod 26, in the case of the character it
\* replaces, then the rest of the style.
AbcStep == Stepped /\ last'.op = "abc"
IsLabel(text, str, n) ==
  LET i == CHOOSE i \in DOMAIN str :
             str[i] \in {"a", "A"} /\ \A j \in 1..(i - 1) : str[j] \notin {"a", "A"}
      k == ((n - 1) \div 26) + 1
      letter == (IF str[i] = "A" THEN ABC_UPPER ELSE ABC_STRING)[((n - 1) % 26) + 1]
  IN /\ Len(text) = Len(str) - 1 + k
     /\ \A j \in DOMAIN text :
          text[j] = IF j < i THEN str[j] ELSE IF j < i + k THEN letter ELSE str[j - k + 1]
HasLetter(abc) == abc.t = "str" /\ (Has(abc.v, "a") \/ Has(abc.v, "A"))
LabelText == title_dict[Main]["abc"].text
LabelTextNext == title_dict'[Main]["abc"].text

\* C20 (as stated): for an axes with number n >= 1 and a style string that
\* contains 'a' or 'A' the label text is the label of n in the style; a style
\* that is not a string, or contains neither 'a' nor 'A', raises ValueError;
\* an axes whose number is None gets no label text.
C20_LabelOrValueError ==
  [][AbcStep /\ last'.tin.abc # AbcNone =>
       LET abc == last'.tin.abc
           n == number[last'.ax]
       IN IF ~HasLetter(abc) THEN last'.exc = "ValueError"
          ELSE /\ last'.exc = ""
               /\ IF n = NoNumber THEN LabelTextNext = LabelText
                  ELSE IsLabel(LabelTextNext, abc.v, n)]_vars

\* C20 (amended): the setting True stands for the style 'a'.  For an axes
\* with number n >= 1 and a style string that contains 'a' or 'A' the label
\* text is the label of n in the style.  A setting that is False, None or the
\* empty string is no style: nothing is raised.  Any
\* other setting that is not a string, and a string that contains neither 'a'
\* nor 'A', raises ValueError and the label stays as it was.  An axes whose
\* number is None gets no label text.
C20_LabelOfNumber ==
  [][AbcStep =>
       LET abc == IF last'.tin.abc = AbcTrue THEN AbcStr(<<"a">>) ELSE last'.tin.abc
           n == number[last'.ax]
       IN IF abc.t \in {"false", "none"} \/ abc = AbcStr(<<>>)
          THEN last'.exc = ""
          ELSE IF ~HasLetter(abc)
          THEN last'.exc = "ValueError" /\ title_dict' = title_dict
          ELSE /\ last'.exc = ""
               /\ IF n = NoNumber THEN LabelTextNext = LabelText
                  ELSE IsLabel(LabelTextNext, abc.v, n)]_vars
C20_Witness ==
  /\ last.op = "abc" /\ last.ax = Main /\ number[Main] = 53
  /\ last.tin.abc = AbcStr(<<"(", "a", ")", "A">>)
  /\ title_dict[Main]["abc"].text = <<"(", "a", "a", "a", ")", "A">>


\* ------------------------------------------------------- ownership chains
\* An axes hangs on another by one parent attribute: a panel on its subplot
\* (_panel_parent), an inset on the axes it was made in (_inset_parent), a
\* twin on the axes it duplicates (_altx_parent, _alty_parent).  A chain lists
\* such axes: axes 0 of the chain is a main subplot, axes i hangs on axes
\* i - 1 by the link chain[i].
Hops == 5
NoParent == -1
Kind(ch, n) == IF n = 0 THEN "None" ELSE ch[n]
Parent(ch, n, kind) == IF Kind(ch, n) = kind THEN n - 1 ELSE NoParent
OrSelf(p, self) == IF p = NoParent THEN self ELSE p

\* One pass of the loop of _get_topmost_axes (an axes is its own _axes).
Hop(ch, self) ==
  LET FromInset(a) ==
        LET FromPanel(b) == OrSelf(Parent(ch, b, "panel"), b)
        IN FromPanel(OrSelf(Parent(ch, a, "inset"), a))
  IN FromInset(OrSelf(Parent(ch, self, "altx"), self))
RECURSIVE Hopped(_, _, _)
Hopped(ch, self, n) == IF n = 0 THEN self ELSE Hopped(ch, Hop(ch, self), n - 1)
GetTopmostAxes(ch, self) == Hopped(ch, self, Hops)

\* inset_axes on the last axes of the chain; the twin made of it by altx or
\* alty; panel_axes, which makes a panel for a subplot that is no panel.
Frame ==
  UNCHANGED <<legend_dict, colorbar_dict, panel_dict, panel_side, panel_hidden,
              npanels, legend_attr, artists, guides, registered, calls,
              remove_raises, title_dict, title_above, title_loc, abc_loc, title_pad,
              abc_title_pad, child_axes, subplotspec, panel_share, panel_share_group,
              setups, set_order, number, zoom, steps>>
Link(kind) ==
  /\ Len(chain) < MaxChain
  /\ chain' = Append(chain, kind)
  /\ last' = [NoLast EXCEPT !.op = kind]
  /\ Frame
InsetAxes == Link("inset")
Altx == Link("altx")
Alty == Link("alty")
PanelOfMain == chain = <<>> /\ Link("panel")
Topmost(n) ==
  /\ last' = [NoLast EXCEPT !.op = "topmost", !.ax = n, !.top = GetTopmostAxes(chain, n)]
  /\ UNCHANGED chain
  /\ Frame
NextChain ==
  \/ InsetAxes
  \/ Altx
  \/ Alty
  \/ PanelOfMain
  \/ \E n \in 0..Len(chain) : Topmost(n)
InitChain == Init /\ title_above[Main] = "True" /\ abc_loc[Main] = "left" /\ OneSubplot /\ ~remove_raises
SpecChain == InitChain /\ [][NextChain]_vars

\* C21: for every chain of at most five links the axes _get_topmost_axes
\* returns has no panel, inset or twin parent (it is the main subplot of the
\* chain), and asking again of the result returns the same axes.
C21_TopmostIsMain ==
  last.op = "topmost" /\ Len(chain) <= Hops =>
    /\ Kind(chain, last.top) = "None"
    /\ GetTopmostAxes(chain, last.top) = last.top


\* ------------------------------------------------------ arbitration runs
\* Outer titles are set on the main axes, top panels are added to it and
\* _above_title is run; every one of these ends with the arbitration.
OuterTitleInputs ==
  { [NoTitleIn EXCEPT !.loc = loc, !.title = ArgText(t)] :
      loc \in {"left", "center", "right"}, t \in {Hello, World} }
NextArb ==
  \/ \E in \in OuterTitleInputs : UpdateTitle(Main, in)
  \/ Panel(Main, "top")
  \/ AboveTitleCall(Main)
InitArb == Init /\ remove_raises = FALSE /\ OneSubplot
SpecArb == InitArb /\ [][NextArb]_vars

\* The owner the preference designates, and the axes holding text in a slot.
TopPanels == panel_dict[Main]["top"]
Outermost == TopPanels[Len(TopPanels)]
Designated ==
  IF TopPanels = <<>> THEN Main
  ELSE IF title_above[Main] = "True"
          \/ (title_above[Main] = "panels" /\ ~panel_hidden[Outermost])
       THEN Outermost
       ELSE Main
Holders(n) ==
  {x \in {Main} \cup {TopPanels[i] : i \in DOMAIN TopPanels} : title_dict[x][n].text # <<>>}

\* C22: the non-empty text of an outer slot name is held only by the owner
\* the preference designates, the main axes or its outermost top panel:
\* never by an inner top panel, never by two axes at once.
C22_OnlyDesignatedHolds ==
  \A n \in {"left", "center", "right"} : Holders(n) \subseteq {Designated}


\* ---------------------------------------------------- preference changes
\* format(titleabove=...) on the main axes, between title updates and the
\* creation of top panels; the record of a format keeps the slots as they
\* were before the call.
RoundTitleInputs ==
  { [NoTitleIn EXCEPT !.loc = "center", !.title = ArgText(Hello), !.style = Red],
    [NoTitleIn EXCEPT !.loc = "left", !.title = ArgText(Blank)],
    [NoTitleIn EXCEPT !.loc = "right", !.title = ArgText(World),
                      !.style = [color |-> "None", font |-> "f1"]] }
RoundTitle(in) ==
  CommitWithin(UpdateTitleOp(St, Main, in.loc, in.title, in.style, in.rcloc),
               [NoLast EXCEPT !.op = "title", !.ax = Main, !.loc = in.loc, !.tin = in],
               MaxRoundSteps)
RoundPanel ==
  CommitWithin(PanelAxes(St, Main, "top", TRUE),
               [NoLast EXCEPT !.op = "panel", !.ax = Main, !.loc = "top"], MaxRoundSteps)
RoundFormat(above) ==
  CommitWithin(FormatOp(St, Main, [NoTitleIn EXCEPT !.above = above]),
               [NoLast EXCEPT !.op = "format", !.ax = Main,
                              !.tin = [NoTitleIn EXCEPT !.above = above],
                              !.before = title_dict],
               MaxRoundSteps)
NextRound ==
  \/ \E in \in RoundTitleInputs : RoundTitle(in)
  \/ RoundPanel
  \/ \E above \in {"True", "False"} : RoundFormat(above)
InitRound == Init /\ remove_raises = FALSE /\ OneSubplot
SpecRound == InitRound /\ [][NextRound]_vars

\* C23: with one top panel and the titles held by the main axes, the
\* preference is switched to always-panel and then back to always-main, each
\* by a format that ends with the arbitration.  After the second format the
\* text, color and font of every outer slot of the main axes are what they
\* were before the first, and the panel's outer slots have empty text.
HeldByMain(td) ==
  /\ Len(TopPanels) = 1
  /\ \A i \in DOMAIN AboveNames(St, Main) : td[Outermost][AboveNames(St, Main)[i]].text = <<>>
ToPanelDone == last.op = "format" /\ last.tin.above = "True" /\ HeldByMain(last.before)
KeptEntry(g, k) ==
  /\ DictHas(MainDictNext(g), k)
  /\ DictGet(MainDictNext(g), k) = DictGet(MainDict(g), k)
  /\ Resolved(DictGet(MainDict(g), k)) =>
       \A id \in IdsOf(DictGet(MainDict(g), k)) :
         guides'[id].rm = guides[id].rm /\ (Attached(St, id) => Attached(St', id))
C24_OtherKeysKept ==
  [][/\ (Stepped /\ last'.op \in Guides /\ last'.ax = Main) =>
          \A g \in Guides : \A k \in DictKeys(MainDict(g)) :
            <<g, k>> # <<last'.guide, last'.loc>> => KeptEntry(g, k)
     /\ FlushStep(Main) =>
          \A g \in Guides : \A k \in DictKeys(MainDict(g)) :
            ~IsPendingAt(MainDict(g), k) => KeptEntry(g, k)]_vars


\* C25: every resolved guide a registry of some axes refers to is in the
\* scene and was never removed; no guide is referred to under two keys of
\* one axes; no guide had remove() called on it more than once.
Refs ==
  {r \in [ax : Axes, guide : Guides,
          k : UNION {DictKeys(Dicts(St, g)[x]) : g \in Guides, x \in Axes}] :
     IsResolvedAt(Dicts(St, r.guide)[r.ax], r.k)}
RefIds(r) == IdsOf(DictGet(Dicts(St, r.guide)[r.ax], r.k))
C25_RegistriesHoldLiveGuides ==
  /\ \A r \in Refs : \A id \in RefIds(r) : Attached(St, id) /\ guides[id].rm = 0
  /\ \A r, q \in Refs : r # q /\ r.ax = q.ax => RefIds(r) \cap RefIds(q) = {}
  /\ \A id \in DOMAIN guides : guides[id].rm <= 1


\* ---------------------------------------------------------- title paddings
\* _update_title with new paddings on the main axes, top panels (plain, or
\* filled by a colorbar) and changes of the preference.
PadInputs ==
  { [NoTitleIn EXCEPT !.loc = "center", !.pad = 7],
    [NoTitleIn EXCEPT !.loc = "center", !.abcpad = 8],
    [NoTitleIn EXCEPT !.loc = "center", !.title = ArgText(Hello), !.pad = 9, !.abcpad = 9] }
PadTitle(in) ==
  Commit(UpdateTitlePadOp(St, Main, in),
         [NoLast EXCEPT !.op = "pad", !.ax = Main, !.loc = in.loc, !.tin = in])
NextPad ==
  \/ \E in \in PadInputs : PadTitle(in)
  \/ Panel(Main, "top")
  \/ Colorbar(Main, TopColorbar, "top", FALSE)
InitPad == Init /\ remove_raises = FALSE /\ OneSubplot
SpecPad == InitPad /\ [][NextPad]_vars

\* C26: when _update_title sets a new title pad or abc-title pad on a main
\* axes that has a top panel, the main axes has the new value when the call
\* returns, under each of the three preferences.
C26_NewPadStays ==
  [][Stepped /\ last'.op = "pad" /\ TopPanels # <<>> =>
       /\ last'.tin.pad # NoPad => title_pad'[Main] = last'.tin.pad
       /\ last'.tin.abcpad # NoPad => abc_title_pad'[Main] = last'.tin.abcpad]_vars


\* C27: when the abc setting of a numbered axes that shows its label is
\* changed to False the label text becomes empty; after every _update_abc
\* that is given a setting the label is non-empty only if the setting is
\* enabled.
C27_DisabledLabelEmpty ==
  [][AbcStep /\ last'.tin.abc # AbcNone /\ last'.exc = "" =>
       (LabelTextNext # <<>> => Truthy(last'.tin.abc))]_vars


\* C28: after _auto_share on a main axes the x reference of its panel group,
\* the outermost bottom panel that takes part in sharing or else the main
\* axes, has _panel_sharex_group off and every other member of the group (the
\* main axes, the bottom and top panels that take part) has it on; the same
\* for y with the left and right panels.
Members(s) == {s[i] : i \in DOMAIN s}
C28_ReferenceFlagOff ==
  [][AutoShareStep =>
       LET m == last'.ax
       IN \A near \in {"bottom", "left"} :
            LET far == IF near = "bottom" THEN "top" ELSE "right"
                axis == LongAxis(near)
                paxs == EligibleNext(m, near)
                ref == IF paxs # <<>> THEN paxs[Len(paxs)] ELSE m
                group == {m} \cup Members(paxs) \cup Members(EligibleNext(m, far))
            IN /\ ~panel_share_group'[ref][axis]
               /\ \A x \in group \ {ref} : panel_share_group'[x][axis]]_vars


\* ------------------------------------------------------ inset zoom actions
\* The edge colors asked for and the connectors the geometry shows.
ZoomColors == {"k", "r"}
ZoomLines == {<<TRUE, FALSE, FALSE, TRUE>>, <<FALSE, TRUE, TRUE, FALSE>>, <<TRUE, TRUE, FALSE, FALSE>>}
ZoomFrame ==
  UNCHANGED <<legend_dict, colorbar_dict, panel_dict, panel_side, panel_hidden,
              npanels, legend_attr, artists, guides, registered, calls,
              remove_raises, title_dict, title_above, title_loc, abc_loc, title_pad,
              abc_title_pad, child_axes, subplotspec, panel_share, panel_share_group,
              setups, set_order, number, chain>>
ZoomCommit(R, op, color, vis) ==
  /\ steps < MaxZoomCalls
  /\ steps' = steps + 1
  /\ zoom' = R.z
  /\ last' = [NoLast EXCEPT !.op = op, !.prev = last.op, !.exc = R.exc,
                            !.zin = [color |-> color, vis |-> vis]]
  /\ ZoomFrame
InsetAxesZoom(zoomed, color, vis) ==
  ~zoom.inset /\ ZoomCommit(InsetAxesOp(zoom, zoomed, color, vis), "inset_axes", color, vis)
IndicateInsetZoom(color, vis) ==
  ZoomCommit(IndicateInsetZoomOp(zoom, color, vis), "indicate_inset_zoom", color, vis)
NextZoom ==
  \/ \E zoomed \in BOOLEAN, color \in ZoomColors, vis \in ZoomLines :
       InsetAxesZoom(zoomed, color, vis)
  \/ \E color \in ZoomColors, vis \in ZoomLines : IndicateInsetZoom(color, vis)
InitZoom == Init /\ title_above[Main] = "True" /\ abc_loc[Main] = "left" /\ OneSubplot /\ ~remove_raises
SpecZoom == InitZoom /\ [][NextZoom]_vars

\* C29: after every indicate_inset_zoom call on an inset axes the recorded
\* indicator is the newest one and the only one with anything visible: the
\* rectangle and every connector of each earlier indicator are hidden; a call
\* that finds a recorded indicator gives its properties to the new one.
AllHidden(ind) == ~ind.rect.visible /\ \A i \in DOMAIN ind.lines : ~ind.lines[i].visible
Colors(ind) == <<ind.rect.color, [i \in DOMAIN ind.lines |-> ind.lines[i].color]>>
C29_OnlyRecordedVisible ==
  [][Stepped /\ last'.op = "indicate_inset_zoom" /\ last'.exc = "" =>
       /\ zoom'.data = Len(zoom'.indicators)
       /\ Len(zoom'.indicators) = Len(zoom.indicators) + 1
       /\ zoom'.indicators[zoom'.data].rect.visible
       /\ \A i \in 1..Len(zoom.indicators) : AllHidden(zoom'.indicators[i])
       /\ zoom.data # 0 =>
            Colors(zoom'.indicators[zoom'.data]) = Colors(zoom.indicators[zoom.data])]_vars
C29_Witness ==
  /\ last.op = "indicate_inset_zoom" /\ last.exc = ""
  /\ Len(zoom.indicators) = 3 /\ zoom.data = 3
  /\ zoom.indicators[1].rect.color = "k" /\ last.zin.color = "r"
  /\ zoom.indicators[3].rect.color = "k"
  /\ \E i \in DOMAIN zoom.indicators[3].lines : zoom.indicators[3].lines[i].visible


\* C30: _above_title run a second time right after a first changes no slot
\* text: in every state an _above_title call has just produced, the texts a
\* further call would leave are the texts already there, and a step that is
\* the second of two calls in a row on one axes leaves every text as it was.
Texts(td) == [x \in DOMAIN td |-> [n \in DOMAIN td[x] |-> td[x][n].text]]
C30_AboveTwiceAsOnce ==
  /\ [](last.op = "above" => Texts(AboveTitle(St, last.ax).title_dict) = Texts(title_dict))
  /\ [][Stepped /\ last.op = "above" /\ last'.op = "above" /\ last'.ax = last.ax =>
          Texts(title_dict') = Texts(title_dict)]_vars
C30_Witness ==
  /\ last.op = "above" /\ last.ax = Main
  /\ TopPanels # <<>>
  /\ Strip(title_dict[Main]["center"].text) = <<>>
  /\ Strip(title_dict[Outermost]["center"].text) # <<>>

=============================================================================
